---------------------------- MODULE Spec2Model ----------------------------
(***************************************************************************)
(* The weather-metrics ingestion pipeline of Proj2 (main, prometheus and   *)
(* kafka sources): line-parsing goroutines, the resolver pool, the fetch   *)
(* pool, the broker topics, the broker consumers, the aggregation workers  *)
(* and main's staged shutdown.                                             *)
(*                                                                         *)
(* Conventions.  A Go string is a sequence of one-character tokens (or of  *)
(* short tokens where the characters inside never matter).  A calendar day *)
(* is a day number; the layout "2006-01-02" turns it into the token        *)
(* sequence <<year, "-", month, "-", day>>.  A JSON object is a record     *)
(* whose fields are the JSON keys.  The durable log is the sequence of its *)
(* newline-terminated lines plus the bytes written after the last newline; *)
(* a line is the sequence of the chunks written into it.                   *)
(***************************************************************************)
EXTENDS Integers, Sequences, FiniteSets, TLC

(***************************************************************************)
(* Bounds of the model.                                                    *)
(***************************************************************************)
MaxWorkers == 1
MaxLines == 1
MaxDeliveries == 4
MaxWriteFailures == 1
MaxLogLines == 2
MaxDrained == 2
MaxTailReads == 4
MaxStageLines == 2
MaxKafkaWait == 64

(***************************************************************************)
(* Program constants.                                                      *)
(***************************************************************************)
MaxDays == 5
SamplesPerDay == 8
tempLowDefault == 32
tempHighDefault == 90
humidityLowDefault == 30
humidityHighDefault == 70
windHighDefault == 40
retryDelay == 2
grafanaTimeout == 60

topics == <<"temperature", "humidity", "wind", "cloud">>

Today == 1

(***************************************************************************)
(* strings.Split, strings.TrimSpace, strings.SplitN, strconv.Atoi.         *)
(***************************************************************************)
RECURSIVE IndexOf(_, _, _)
IndexOf(s, sep, i) ==
  IF i > Len(s) THEN 0
  ELSE IF s[i] = sep THEN i
  ELSE IndexOf(s, sep, i + 1)

RECURSIVE Split(_, _)
Split(s, sep) ==
  LET i == IndexOf(s, sep, 1)
  IN  IF i = 0 THEN <<s>>
      ELSE <<SubSeq(s, 1, i - 1)>> \o Split(SubSeq(s, i + 1, Len(s)), sep)

SplitN2(s, sep) ==
  LET i == IndexOf(s, sep, 1)
  IN  IF i = 0 THEN <<s>>
      ELSE <<SubSeq(s, 1, i - 1), SubSeq(s, i + 1, Len(s))>>

RECURSIVE TrimLeft(_)
TrimLeft(s) ==
  IF s # <<>> /\ Head(s) = " " THEN TrimLeft(Tail(s)) ELSE s

RECURSIVE TrimRight(_)
TrimRight(s) ==
  IF s # <<>> /\ s[Len(s)] = " " THEN TrimRight(SubSeq(s, 1, Len(s) - 1)) ELSE s

TrimSpace(s) == TrimRight(TrimLeft(s))

Digits == <<"0", "1", "2", "3", "4", "5", "6", "7", "8", "9">>

IsDigit(c) == \E d \in 1..10 : Digits[d] = c

DigitVal(c) == (CHOOSE d \in 1..10 : Digits[d] = c) - 1

RECURSIVE DigitsVal(_, _)
DigitsVal(s, acc) ==
  IF s = <<>> THEN acc ELSE DigitsVal(Tail(s), acc * 10 + DigitVal(Head(s)))

Atoi(s) ==
  LET signed == s # <<>> /\ Head(s) \in {"+", "-"}
      body   == IF signed THEN Tail(s) ELSE s
      good   == body # <<>> /\ \A i \in 1..Len(body) : IsDigit(body[i])
  IN  IF ~good THEN [err |-> TRUE, val |-> 0]
      ELSE [err |-> FALSE,
            val |-> IF signed /\ Head(s) = "-"
                    THEN 0 - DigitsVal(body, 0) ELSE DigitsVal(body, 0)]

(***************************************************************************)
(* time.Now().AddDate(0, 0, n).Format("2006-01-02") and                    *)
(* time.Unix(t, 0).Format("2006-01-02"): the clock counts 3-hour slots.    *)
(***************************************************************************)
FormatDate(day) == <<"2026", "-", "11", "-", ToString(day)>>

SlotDay(slot) == slot \div SamplesPerDay

(***************************************************************************)
(* parseLine                                                               *)
(***************************************************************************)
NoPreRequest == [Days |-> 0, ZIPCode |-> <<>>, LineNum |-> 0]

\* A faulty parseLine: a day count above MaxDays is kept as it is.
parseLineUnclamped(text, lineNum) ==
  LET parameters == Split(text, "|")
  IN  IF Len(parameters) # 2
      THEN [req |-> NoPreRequest, success |-> FALSE]
      ELSE LET daysStr == TrimSpace(parameters[1])
               ZIPcode == TrimSpace(parameters[2])
               conv    == Atoi(daysStr)
           IN  IF conv.err \/ conv.val <= 0
               THEN [req |-> NoPreRequest, success |-> FALSE]
               ELSE [req |-> [Days    |-> conv.val,
                              ZIPCode |-> ZIPcode,
                              LineNum |-> lineNum],
                     success |-> TRUE]

parseLine(text, lineNum) ==
  LET parameters == Split(text, "|")
  IN  IF Len(parameters) # 2
      THEN [req |-> NoPreRequest, success |-> FALSE]
      ELSE LET daysStr == TrimSpace(parameters[1])
               ZIPcode == TrimSpace(parameters[2])
               conv    == Atoi(daysStr)
           IN  IF conv.err \/ conv.val <= 0
               THEN [req |-> NoPreRequest, success |-> FALSE]
               ELSE [req |-> [Days    |-> IF conv.val > MaxDays
                                          THEN MaxDays ELSE conv.val,
                              ZIPCode |-> ZIPcode,
                              LineNum |-> lineNum],
                     success |-> TRUE]

(***************************************************************************)
(* WeatherMessage and its JSON form (the struct tags of kafka.go).         *)
(***************************************************************************)
ZeroMessage ==
  [Topic |-> "", Zip |-> <<>>, Date |-> <<>>, Temperature |-> 0,
   FeelsLike |-> 0, Humidity |-> 0, WindSpeed |-> 0, WindDegree |-> 0,
   Cloud |-> 0]

JsonField(obj, k, zero) == IF k \in DOMAIN obj THEN obj[k] ELSE zero

MarshalMessage(msg) ==
  [Topic |-> msg.Topic, Zip |-> msg.Zip, Date |-> msg.Date,
   Temp |-> msg.Temperature, FeelsLike |-> msg.FeelsLike,
   Humidity |-> msg.Humidity, Speed |-> msg.WindSpeed,
   Degree |-> msg.WindDegree, CloudPercent |-> msg.Cloud]

UnmarshalMessage(obj) ==
  [Topic       |-> JsonField(obj, "Topic", ""),
   Zip         |-> JsonField(obj, "Zip", <<>>),
   Date        |-> JsonField(obj, "Date", <<>>),
   Temperature |-> JsonField(obj, "Temp", 0),
   FeelsLike   |-> JsonField(obj, "FeelsLike", 0),
   Humidity    |-> JsonField(obj, "Humidity", 0),
   WindSpeed   |-> JsonField(obj, "Speed", 0),
   WindDegree  |-> JsonField(obj, "Degree", 0),
   Cloud       |-> JsonField(obj, "CloudPercent", 0)]

(***************************************************************************)
(* The durable log file.  A chunk is what one Write call put there: a JSON *)
(* object, bytes that are no JSON, or bytes that are no JSON and exceed    *)
(* the scanner's buffer.                                                   *)
(***************************************************************************)
JsonChunk(obj) == [kind |-> "json", obj |-> obj]
GarbageChunk == [kind |-> "garbage"]
LongChunk == [kind |-> "long"]

\* bufio.Scanner with its default buffer: a line of MaxScanTokenSize bytes
\* or more ends the scan; LongChunk stands for that many bytes.
LineTooLong(line) == \E n \in 1..Len(line) : line[n].kind = "long"

RECURSIVE Scanned(_, _)
Scanned(lines, i) ==
  IF i > Len(lines) \/ LineTooLong(lines[i]) THEN <<>>
  ELSE <<lines[i]>> \o Scanned(lines, i + 1)

\* The tokens scanner.Scan() yields: the terminated lines, then the
\* unterminated rest if any, up to the first line that is too long.
ScanLines(file) ==
  Scanned(file.lines \o (IF file.tail = <<>> THEN <<>> ELSE <<file.tail>>), 1)

\* json.Unmarshal of one line succeeds when the line is one JSON object.
LineParses(line) == Len(line) = 1 /\ line[1].kind = "json"

RECURSIVE ScanFrom(_, _, _, _)
ScanFrom(lines, i, zip, date) ==
  IF i > Len(lines) THEN FALSE
  ELSE IF ~LineParses(lines[i]) THEN ScanFrom(lines, i + 1, zip, date)
  ELSE LET msg == UnmarshalMessage(lines[i][1].obj)
       IN  IF msg.Zip = zip /\ msg.Date = date THEN TRUE
           ELSE ScanFrom(lines, i + 1, zip, date)

isInTSDB(req, file, canOpen) ==
  LET zip  == req.ZIPCode
      date == FormatDate(Today + req.Days - 1)
  IN  IF ~canOpen THEN FALSE
      ELSE ScanFrom(ScanLines(file), 1, zip, date)


(***************************************************************************)
(* The providers.  The geocoder answers a ZIP code with a name and         *)
(* coordinates; the forecast provider answers cnt with a list of 3-hourly  *)
(* samples that begins at slot provider.start and may hold fewer than cnt  *)
(* samples (provider.missing fewer).  The k-th sample's readings are the   *)
(* provider's base readings plus k, so a reading tells which sample it is. *)
(***************************************************************************)
ForecastLen(cnt, missing) == IF cnt > missing THEN cnt - missing ELSE 0

\* results.DaysList[k] for the 0-based index k.
DailyResponse(prov, k) ==
  [Time |-> prov.start + k, Temp |-> prov.sample.Temp + k,
   FeelsLike |-> prov.sample.FeelsLike + k,
   Humidity |-> prov.sample.Humidity + k, Speed |-> prov.sample.Speed + k,
   Deg |-> prov.sample.Deg + k, All |-> prov.sample.All + k]

\* A faulty LoopRuns: the bound compares the day, not the sample index.
LoopRunsPerSample(i, days, len) == i < days /\ i < len

\* The for-loop condition of processRequest.
LoopRuns(i, days, len) == i < days /\ i * SamplesPerDay < len

\* A faulty SampleIndex: the i-th iteration reads the i-th sample.
SampleIndexDense(i) == i

\* The index of the sample the i-th iteration reads.
SampleIndex(i) == i * SamplesPerDay

\* tempPayload, humidityPayload, windPayload, cloudPayload of one iteration,
\* in the order they are written; each goes to its own writer.
Payloads(location, date, r) ==
  << [Location |-> location, Date |-> date, Temp |-> r.Temp,
      FeelsLike |-> r.FeelsLike],
     [Location |-> location, Date |-> date, Humidity |-> r.Humidity],
     [Location |-> location, Date |-> date, Speed |-> r.Speed,
      Degree |-> r.Deg],
     [Location |-> location, Date |-> date, CloudPercent |-> r.All] >>

MessageKey(zipCode, date) == zipCode \o <<"-">> \o date

(***************************************************************************)
(* convertToCoordinates.  ZIPResponse.Cod is an interface: encoding/json    *)
(* stores a JSON number in it as a float64 and a JSON string as a string,   *)
(* and == between an interface and a constant compares the dynamic type and *)
(* the value; the constant 401 has the type int.                            *)
(***************************************************************************)
NilCod == [type |-> "nil", val |-> ""]

DecodeAny(json) ==
  CASE json.kind = "number" -> [type |-> "float64", val |-> json.text]
    [] json.kind = "string" -> [type |-> "string", val |-> json.text]
    [] OTHER -> NilCod

IntConst(n) == [type |-> "int", val |-> n]

StringConst(s) == [type |-> "string", val |-> s]

InterfaceEq(x, y) == x.type = y.type /\ x.val = y.val

\* The bodies the geocoding provider answers with.
FoundBody == [cod |-> [kind |-> "absent"], name |-> "Town"]

NotFoundBody == [cod |-> [kind |-> "string", text |-> "404"], name |-> ""]

UnauthorizedBody == [cod |-> [kind |-> "number", text |-> "401"], name |-> ""]

convertToCoordinates(req, body) ==
  LET Cod == DecodeAny(body.cod)
  IN  IF InterfaceEq(Cod, IntConst("401"))
      THEN [exit |-> TRUE, success |-> FALSE, Cod |-> Cod,
            post |-> [Days |-> 0, Name |-> "", ZIPCode |-> <<>>,
                      LineNum |-> 0]]
      ELSE IF InterfaceEq(Cod, StringConst("404"))
      THEN [exit |-> FALSE, success |-> FALSE, Cod |-> Cod,
            post |-> [Days |-> 0, Name |-> "", ZIPCode |-> <<>>,
                      LineNum |-> 0]]
      ELSE [exit |-> FALSE, success |-> TRUE, Cod |-> Cod,
            post |-> [Days |-> req.Days, Name |-> body.name,
                      ZIPCode |-> req.ZIPCode, LineNum |-> req.LineNum]]

(***************************************************************************)
(* updateMetrics: the gauge writes of the switch, in program order.        *)
(***************************************************************************)
Alert(cond) == IF cond THEN 1 ELSE 0

\* A faulty GaugeOps: the feelslike gauge is set from the temperature.
GaugeOpsFeelsLikeFromTemp(msg) ==
  CASE msg.Topic = "temperature" ->
         << <<"temperature", msg.Temperature>>,
            <<"feelslike", msg.Temperature>>,
            <<"alert_temperature_high",
              Alert(msg.Temperature > tempHighDefault)>>,
            <<"alert_temperature_low",
              Alert(msg.Temperature < tempLowDefault)>> >>
    [] msg.Topic = "humidity" ->
         << <<"humidity", msg.Humidity>>,
            <<"alert_humidity_high",
              Alert(msg.Humidity > humidityHighDefault)>>,
            <<"alert_humidity_low",
              Alert(msg.Humidity < humidityLowDefault)>> >>
    [] msg.Topic = "wind" ->
         << <<"wind_speed", msg.WindSpeed>>,
            <<"wind_degree", msg.WindDegree>>,
            <<"alert_wind_high", Alert(msg.WindSpeed > windHighDefault)>> >>
    [] msg.Topic = "cloud" ->
         << <<"cloud_percent", msg.Cloud>> >>
    [] OTHER -> <<>>

GaugeOps(msg) ==
  CASE msg.Topic = "temperature" ->
         << <<"temperature", msg.Temperature>>,
            <<"feelslike", msg.FeelsLike>>,
            <<"alert_temperature_high",
              Alert(msg.Temperature > tempHighDefault)>>,
            <<"alert_temperature_low",
              Alert(msg.Temperature < tempLowDefault)>> >>
    [] msg.Topic = "humidity" ->
         << <<"humidity", msg.Humidity>>,
            <<"alert_humidity_high",
              Alert(msg.Humidity > humidityHighDefault)>>,
            <<"alert_humidity_low",
              Alert(msg.Humidity < humidityLowDefault)>> >>
    [] msg.Topic = "wind" ->
         << <<"wind_speed", msg.WindSpeed>>,
            <<"wind_degree", msg.WindDegree>>,
            <<"alert_wind_high", Alert(msg.WindSpeed > windHighDefault)>> >>
    [] msg.Topic = "cloud" ->
         << <<"cloud_percent", msg.Cloud>> >>
    [] OTHER -> <<>>

\* A faulty SetGauge: the value is added to the gauge (Add for Set).
SetGaugeAdds(g, name, zip, date, v) ==
  [n \in DOMAIN g \cup {<<name, zip, date>>} |->
     IF n = <<name, zip, date>>
     THEN (IF n \in DOMAIN g THEN g[n] ELSE 0) + v
     ELSE g[n]]

\* GaugeVec.WithLabelValues(zip, date).Set(v)
SetGauge(g, name, zip, date, v) ==
  [n \in DOMAIN g \cup {<<name, zip, date>>} |->
     IF n = <<name, zip, date>> THEN v ELSE g[n]]

(***************************************************************************)
(* State.                                                                  *)
(***************************************************************************)
VARIABLES
  numWorkers,      \* WORKERS: the size of every pool
  exited,          \* os.Exit(1) was called
  panicked,        \* the panic that ended the process, or ""
  fileText,        \* the lines of the input file
  provider,        \* what the forecast provider answers in this run
  mainPc,          \* where main is
  lineNumber,      \* lineNumber of main's scan loop
  line,            \* the goroutine of each scanned line: [pc, req]
  closed,          \* closed[ch] for the three channels
  cancelled,       \* cancel() of the consumer context was called
  zipWorkers,      \* resolver workers (zipCodeWG): [pc, req, post, cod]
  resultWorkers,   \* fetch workers (resultsWG): [pc, req, len, i, j]
  topic,           \* the broker: topic[t] is the sequence of its messages
  kafkaConsumers,  \* broker consumers (kafkaWG): [pc, off, msg]
  promWorkers,     \* aggregation workers (promWG):
                   \* [pc, msg, k, src, overlapped]
  gauges,          \* the metrics store: <<name, zip, date>> |-> value
  mutex,           \* metricsFileMutex: 0, or the worker holding it
  metricsFile,     \* the durable log: [lines, tail]
  startFile,       \* history: the durable log as the run found it
  calls,           \* history: provider calls made, per line number
  checks,          \* history: line number |-> [opened, exists] of isInTSDB
  sent,            \* history: sends on the request channels, per line number
  writes,          \* history: WriteMessages calls, <<line, t, date>> |-> count
  applied,         \* history: [src, Zip, Date] of the messages whose
                   \* updateMetrics returned after the append
  lastDone,        \* history: <<family, zip, date>> |-> [msg, overlapped] of
                   \* the updateMetrics call that returned last
  reachable,       \* the services: [kafka, grafana], TRUE when they answer
  elapsed,         \* seconds slept by the wait loop main is in
  ensured,         \* the topics of topics ensureKafkaTopic has returned for
  brokerTopics,    \* the broker's topics: name |-> number of partitions
  db,              \* news fetcher: the articles table, <<query, days>> |-> data
  rowLimit,        \* history: <<query, days>> |-> Limit of the request whose
                   \* response the row holds
  cache,           \* news fetcher: the map cache, query |-> [req, resp]
  queryMutexes,    \* news fetcher: query |-> [Request, Mutex]
  locked,          \* news fetcher: the mutexes that are locked
  searchWorkers,   \* news fetcher, resultsWG: [pc, req, line, mu, resp]
  writeWorkers,    \* news fetcher, writeWG: [pc, w]
  served,          \* history: line number |-> what printResponse was called
                   \* with: [location, days, limit, printed]
  apiCalls         \* history: line number |-> calls of the news API

vars ==
  <<numWorkers, exited, panicked, fileText, provider, mainPc, lineNumber,
    line, closed, cancelled, zipWorkers, resultWorkers, topic,
    kafkaConsumers, promWorkers, gauges, mutex, metricsFile, startFile,
    calls, checks, sent, writes, applied, lastDone, reachable, elapsed,
    ensured, brokerTopics, db, rowLimit, cache, queryMutexes, locked,
    searchWorkers, writeWorkers, served, apiCalls>>

Workers == 1..numWorkers
TopicIds == 1..Len(topics)
Consumers == Workers \X TopicIds
LineIds == 1..Len(fileText)

Running == ~exited /\ panicked = ""

NoPostRequest ==
  [Days |-> 0, Name |-> "", ZIPCode |-> <<>>, LineNum |-> 0]

\* The value of a history function at a key it may not hold yet.
At(f, x, zero) == IF x \in DOMAIN f THEN f[x] ELSE zero

Put(f, x, v) == [y \in DOMAIN f \cup {x} |-> IF y = x THEN v ELSE f[y]]

(***************************************************************************)
(* Inputs of the pipeline runs.                                            *)
(***************************************************************************)
PipelineLines ==
  { <<"1", "|", "A">>, <<"x", "|", "A">>, <<"3", "|", "A">> }

RECURSIVE SeqsUpTo(_, _)
SeqsUpTo(S, n) ==
  IF n = 0 THEN {<<>>}
  ELSE LET shorter == SeqsUpTo(S, n - 1)
       IN  shorter \cup
           {Append(s, x) : s \in {t \in shorter : Len(t) = n - 1}, x \in S}

MildSample ==
  [Temp |-> 60, FeelsLike |-> 58, Humidity |-> 50, Speed |-> 10, Deg |-> 180,
   All |-> 20]

HotSample ==
  [Temp |-> 95, FeelsLike |-> 99, Humidity |-> 80, Speed |-> 45, Deg |-> 90,
   All |-> 70]

ColdSample ==
  [Temp |-> 20, FeelsLike |-> 10, Humidity |-> 20, Speed |-> 5, Deg |-> 0,
   All |-> 0]

\* The WeatherMessage a consumer builds from an event of family t.
EventMessage(t, z, day, s) ==
  [Topic |-> t, Zip |-> z, Date |-> FormatDate(day),
   Temperature |-> IF t = "temperature" THEN s.Temp ELSE 0,
   FeelsLike |-> IF t = "temperature" THEN s.FeelsLike ELSE 0,
   Humidity |-> IF t = "humidity" THEN s.Humidity ELSE 0,
   WindSpeed |-> IF t = "wind" THEN s.Speed ELSE 0,
   WindDegree |-> IF t = "wind" THEN s.Deg ELSE 0,
   Cloud |-> IF t = "cloud" THEN s.All ELSE 0]

LogRecord(t, z, day, s) == JsonChunk(MarshalMessage(EventMessage(t, z, day, s)))

EmptyFile == [lines |-> <<>>, tail |-> <<>>]

\* What an earlier run may have left in the log.
PipelineFiles ==
  { EmptyFile,
    [lines |-> <<<<LogRecord("cloud", <<"A">>, Today + 2, MildSample)>>>>,
     tail |-> <<>>] }

PipelineProviders ==
  { [start |-> Today * SamplesPerDay + o, missing |-> missing,
     sample |-> MildSample]
      : o \in {5}, missing \in {0, SamplesPerDay} }

IdlePromWorker ==
  [pc |-> "recv", msg |-> ZeroMessage, k |-> 1, src |-> <<0, 0>>,
   overlapped |-> FALSE]

\* main has passed its waits: both services answered, every topic of topics
\* exists on the broker.
StartupDone ==
  /\ reachable = [kafka |-> TRUE, grafana |-> TRUE]
  /\ elapsed = 0
  /\ ensured = Len(topics)
  /\ brokerTopics = [t \in {topics[i] : i \in TopicIds} |-> 1]

\* The news fetcher does not run.
NewsIdle ==
  /\ db = <<>> /\ rowLimit = <<>> /\ cache = <<>> /\ queryMutexes = <<>>
  /\ locked = {} /\ searchWorkers = <<>> /\ writeWorkers = <<>>
  /\ served = <<>> /\ apiCalls = <<>>

\* main up to the launch of the pools: every pool has numWorkers goroutines,
\* the consumers are numWorkers per topic, the channels are open.
InitWorkers ==
  /\ StartupDone
  /\ NewsIdle
  /\ exited = FALSE
  /\ panicked = ""
  /\ mainPc = "scan"
  /\ lineNumber = 0
  /\ line = [i \in LineIds |-> [pc |-> "none", req |-> NoPreRequest]]
  /\ closed = [ch \in {"preCoordinateChan", "requestsChan", "metricsChan"}
                 |-> FALSE]
  /\ cancelled = FALSE
  /\ zipWorkers =
       [w \in Workers |->
          [pc |-> "recv", req |-> NoPreRequest, post |-> NoPostRequest,
           cod |-> NilCod]]
  /\ resultWorkers =
       [w \in Workers |->
          [pc |-> "recv", req |-> NoPostRequest, len |-> 0, i |-> 0, j |-> 1]]
  /\ kafkaConsumers =
       [c \in Consumers |-> [pc |-> "read", off |-> 0, msg |-> ZeroMessage]]
  /\ promWorkers = [w \in Workers |-> IdlePromWorker]
  /\ gauges = <<>>
  /\ mutex = 0
  /\ startFile = metricsFile
  /\ calls = [i \in LineIds |-> [geo |-> 0, forecast |-> 0]]
  /\ checks = <<>>
  /\ sent = [ch \in {"preCoordinateChan", "requestsChan"} |->
               [i \in LineIds |-> 0]]
  /\ writes = <<>>
  /\ applied = {}
  /\ lastDone = <<>>

\* The iterations of processRequest's loop for a request of days days.
Iterations(days, prov) ==
  Cardinality({i \in 0..(days - 1) :
     LoopRuns(i, days, ForecastLen(days * SamplesPerDay, prov.missing))})

\* The messages the consumers of a run can hand to metricsChan at most:
\* every consumer of a topic reads every message of the topic.
RECURSIVE PlannedWrites(_, _, _, _)
PlannedWrites(text, i, prov, f) ==
  IF i > Len(text) THEN 0
  ELSE LET r == parseLine(text[i], i)
       IN  (IF r.success /\ ~isInTSDB(r.req, f, TRUE)
            THEN Len(topics) * Iterations(r.req.Days, prov) ELSE 0)
           + PlannedWrites(text, i + 1, prov, f)

Init ==
  /\ numWorkers \in 1..MaxWorkers
  /\ fileText \in SeqsUpTo(PipelineLines, MaxLines)
  /\ provider \in PipelineProviders
  /\ metricsFile \in PipelineFiles
  /\ numWorkers * PlannedWrites(fileText, 1, provider, metricsFile)
       <= MaxDeliveries
  /\ topic = [t \in TopicIds |-> <<>>]
  /\ InitWorkers

(***************************************************************************)
(* Channels.  A send on a closed channel and a second close panic.         *)
(***************************************************************************)
Panic(why) ==
  /\ panicked' = why
  /\ UNCHANGED <<numWorkers, exited, fileText, provider, mainPc, lineNumber,
                 line, closed, cancelled, zipWorkers, resultWorkers, topic,
                 kafkaConsumers, promWorkers, gauges, mutex, metricsFile,
                 startFile, calls, checks, sent, writes, applied, lastDone,
                 reachable, elapsed, ensured, brokerTopics, db, rowLimit,
                 cache, queryMutexes, locked, searchWorkers, writeWorkers,
                 served, apiCalls>>

Sent(ch, lineNum) == [sent EXCEPT ![ch][lineNum] = @ + 1]

(***************************************************************************)
(* main: the scan loop and the staged shutdown.                            *)
(***************************************************************************)
AllDone(pool) == \A w \in DOMAIN pool : pool[w].pc = "done"

\* scanner.Scan() returned a line: fileWG.Go(...) starts its goroutine.
MainScan ==
  /\ Running /\ mainPc = "scan" /\ lineNumber < Len(fileText)
  /\ lineNumber' = lineNumber + 1
  /\ line' = [line EXCEPT ![lineNumber + 1].pc = "run"]
  /\ UNCHANGED <<numWorkers, exited, panicked, fileText, provider, mainPc,
                 closed, cancelled, zipWorkers, resultWorkers, topic,
                 kafkaConsumers, promWorkers, gauges, mutex, metricsFile,
                 startFile, calls, checks, sent, writes, applied, lastDone,
                 reachable, elapsed, ensured, brokerTopics, db, rowLimit,
                 cache, queryMutexes, locked, searchWorkers, writeWorkers,
                 served, apiCalls>>

\* scanner.Scan() returned false; the sleep; main reaches fileWG.Wait().
MainScanEnd ==
  /\ Running /\ mainPc = "scan" /\ lineNumber = Len(fileText)
  /\ mainPc' = "fileWait"
  /\ UNCHANGED <<numWorkers, exited, panicked, fileText, provider,
                 lineNumber, line, closed, cancelled, zipWorkers,
                 resultWorkers, topic, kafkaConsumers, promWorkers, gauges,
                 mutex, metricsFile, startFile, calls, checks, sent, writes,
                 applied, lastDone, reachable, elapsed, ensured,
                 brokerTopics, db, rowLimit, cache, queryMutexes, locked,
                 searchWorkers, writeWorkers, served, apiCalls>>

\* A faulty Wait: main goes on without waiting for the group.
WaitReturnsAtOnce(pc, pool, next) ==
  /\ Running /\ mainPc = pc
  /\ mainPc' = next
  /\ UNCHANGED <<numWorkers, exited, panicked, fileText, provider,
                 lineNumber, line, closed, cancelled, zipWorkers,
                 resultWorkers, topic, kafkaConsumers, promWorkers, gauges,
                 mutex, metricsFile, startFile, calls, checks, sent, writes,
                 applied, lastDone, reachable, elapsed, ensured,
                 brokerTopics, db, rowLimit, cache, queryMutexes, locked,
                 searchWorkers, writeWorkers, served, apiCalls>>

\* wg.Wait() returns once every goroutine of the group has returned.
Wait(pc, pool, next) ==
  /\ Running /\ mainPc = pc
  /\ AllDone(pool)
  /\ mainPc' = next
  /\ UNCHANGED <<numWorkers, exited, panicked, fileText, provider,
                 lineNumber, line, closed, cancelled, zipWorkers,
                 resultWorkers, topic, kafkaConsumers, promWorkers, gauges,
                 mutex, metricsFile, startFile, calls, checks, sent, writes,
                 applied, lastDone, reachable, elapsed, ensured,
                 brokerTopics, db, rowLimit, cache, queryMutexes, locked,
                 searchWorkers, writeWorkers, served, apiCalls>>

\* close(ch)
Close(pc, ch, next) ==
  /\ Running /\ mainPc = pc
  /\ IF closed[ch]
     THEN Panic("close of closed channel")
     ELSE /\ closed' = [closed EXCEPT ![ch] = TRUE]
          /\ mainPc' = next
          /\ UNCHANGED <<numWorkers, exited, panicked, fileText, provider,
                         lineNumber, line, cancelled, zipWorkers, resultWorkers,
                         topic, kafkaConsumers, promWorkers, gauges, mutex,
                         metricsFile, startFile, calls, checks, sent, writes,
                         applied, lastDone, reachable, elapsed, ensured,
                         brokerTopics, db, rowLimit, cache, queryMutexes, locked,
                         searchWorkers, writeWorkers, served, apiCalls>>

MainFileWait == Wait("fileWait", line, "closePre")

MainClosePre == Close("closePre", "preCoordinateChan", "zipWait")

MainZipWait == Wait("zipWait", zipWorkers, "closeRequests")

MainCloseRequests == Close("closeRequests", "requestsChan", "resultsWait")

MainResultsWait == Wait("resultsWait", resultWorkers, "cancel")

\* A faulty MainCancel: main goes on to kafkaWG.Wait() without cancel().
MainCancelForgotten ==
  /\ Running /\ mainPc = "cancel"
  /\ mainPc' = "kafkaWait"
  /\ UNCHANGED <<numWorkers, exited, panicked, fileText, provider,
                 lineNumber, line, closed, cancelled, zipWorkers,
                 resultWorkers, topic, kafkaConsumers, promWorkers, gauges,
                 mutex, metricsFile, startFile, calls, checks, sent, writes,
                 applied, lastDone, reachable, elapsed, ensured,
                 brokerTopics, db, rowLimit, cache, queryMutexes, locked,
                 searchWorkers, writeWorkers, served, apiCalls>>

\* cancel()
MainCancel ==
  /\ Running /\ mainPc = "cancel"
  /\ cancelled' = TRUE
  /\ mainPc' = "kafkaWait"
  /\ UNCHANGED <<numWorkers, exited, panicked, fileText, provider,
                 lineNumber, line, closed, zipWorkers, resultWorkers, topic,
                 kafkaConsumers, promWorkers, gauges, mutex, metricsFile,
                 startFile, calls, checks, sent, writes, applied, lastDone,
                 reachable, elapsed, ensured, brokerTopics, db, rowLimit,
                 cache, queryMutexes, locked, searchWorkers, writeWorkers,
                 served, apiCalls>>

\* A faulty MainKafkaWait: metricsChan is closed right after cancel().
MainKafkaWaitLeftOut ==
  /\ Running /\ mainPc = "kafkaWait"
  /\ mainPc' = "closeMetrics"
  /\ UNCHANGED <<numWorkers, exited, panicked, fileText, provider,
                 lineNumber, line, closed, cancelled, zipWorkers,
                 resultWorkers, topic, kafkaConsumers, promWorkers, gauges,
                 mutex, metricsFile, startFile, calls, checks, sent, writes,
                 applied, lastDone, reachable, elapsed, ensured,
                 brokerTopics, db, rowLimit, cache, queryMutexes, locked,
                 searchWorkers, writeWorkers, served, apiCalls>>

MainKafkaWait == Wait("kafkaWait", kafkaConsumers, "closeMetrics")

MainCloseMetrics == Close("closeMetrics", "metricsChan", "promWait")

MainPromWait == Wait("promWait", promWorkers, "stopped")

(***************************************************************************)
(* The goroutine of one input line.                                        *)
(***************************************************************************)
\* A faulty LineParse: the request is sent whatever parseLine answered.
LineParseSendsAnyway(i) ==
  /\ Running /\ line[i].pc = "run"
  /\ LET r == parseLine(fileText[i], i)
     IN  line' = [line EXCEPT ![i] = [pc |-> "send", req |-> r.req]]
  /\ UNCHANGED <<numWorkers, exited, panicked, fileText, provider, mainPc,
                 lineNumber, closed, cancelled, zipWorkers, resultWorkers,
                 topic, kafkaConsumers, promWorkers, gauges, mutex,
                 metricsFile, startFile, calls, checks, sent, writes,
                 applied, lastDone, reachable, elapsed, ensured,
                 brokerTopics, db, rowLimit, cache, queryMutexes, locked,
                 searchWorkers, writeWorkers, served, apiCalls>>

LineParse(i) ==
  /\ Running /\ line[i].pc = "run"
  /\ LET r == parseLine(fileText[i], i)
     IN  line' = [line EXCEPT ![i] =
                    [pc |-> IF r.success THEN "send" ELSE "done",
                     req |-> r.req]]
  /\ UNCHANGED <<numWorkers, exited, panicked, fileText, provider, mainPc,
                 lineNumber, closed, cancelled, zipWorkers, resultWorkers,
                 topic, kafkaConsumers, promWorkers, gauges, mutex,
                 metricsFile, startFile, calls, checks, sent, writes,
                 applied, lastDone, reachable, elapsed, ensured,
                 brokerTopics, db, rowLimit, cache, queryMutexes, locked,
                 searchWorkers, writeWorkers, served, apiCalls>>

\* A faulty LineSend: every resolver worker waiting at the channel gets the
\* request.
LineSendBroadcast(i, w) ==
  /\ Running /\ line[i].pc = "send"
  /\ zipWorkers[w].pc = "recv"
  /\ line' = [line EXCEPT ![i].pc = "done"]
  /\ zipWorkers' = [u \in Workers |->
                      IF zipWorkers[u].pc = "recv"
                      THEN [zipWorkers[u] EXCEPT !.pc = "check",
                                                 !.req = line[i].req]
                      ELSE zipWorkers[u]]
  /\ sent' = Sent("preCoordinateChan", i)
  /\ UNCHANGED <<numWorkers, exited, panicked, fileText, provider, mainPc,
                 lineNumber, closed, cancelled, resultWorkers, topic,
                 kafkaConsumers, promWorkers, gauges, mutex, metricsFile,
                 startFile, calls, checks, writes, applied, lastDone,
                 reachable, elapsed, ensured, brokerTopics, db, rowLimit,
                 cache, queryMutexes, locked, searchWorkers, writeWorkers,
                 served, apiCalls>>

\* preCoordinateChan <- req, received by resolver worker w.
LineSend(i, w) ==
  /\ Running /\ line[i].pc = "send"
  /\ IF closed["preCoordinateChan"]
     THEN Panic("send on closed channel")
     ELSE /\ zipWorkers[w].pc = "recv"
          /\ line' = [line EXCEPT ![i].pc = "done"]
          /\ zipWorkers' = [zipWorkers EXCEPT ![w].pc = "check",
                                              ![w].req = line[i].req]
          /\ sent' = Sent("preCoordinateChan", i)
          /\ UNCHANGED <<numWorkers, exited, panicked, fileText, provider, mainPc,
                         lineNumber, closed, cancelled, resultWorkers, topic,
                         kafkaConsumers, promWorkers, gauges, mutex, metricsFile,
                         startFile, calls, checks, writes, applied, lastDone,
                         reachable, elapsed, ensured, brokerTopics, db, rowLimit,
                         cache, queryMutexes, locked, searchWorkers, writeWorkers,
                         served, apiCalls>>

(***************************************************************************)
(* Resolver workers.                                                       *)
(***************************************************************************)
\* range preCoordinateChan ends.
ZipRecvClosed(w) ==
  /\ Running /\ zipWorkers[w].pc = "recv"
  /\ closed["preCoordinateChan"]
  /\ zipWorkers' = [zipWorkers EXCEPT ![w].pc = "done"]
  /\ UNCHANGED <<numWorkers, exited, panicked, fileText, provider, mainPc,
                 lineNumber, line, closed, cancelled, resultWorkers, topic,
                 kafkaConsumers, promWorkers, gauges, mutex, metricsFile,
                 startFile, calls, checks, sent, writes, applied, lastDone,
                 reachable, elapsed, ensured, brokerTopics, db, rowLimit,
                 cache, queryMutexes, locked, searchWorkers, writeWorkers,
                 served, apiCalls>>

\* A faulty ZipCheck: the resolver goes on whatever isInTSDB answered.
ZipCheckResultUnused(w, canOpen) ==
  /\ Running /\ zipWorkers[w].pc = "check"
  /\ LET exists == isInTSDB(zipWorkers[w].req, metricsFile, canOpen)
     IN  /\ zipWorkers' = [zipWorkers EXCEPT ![w].pc = "geocode"]
         /\ checks' = Put(checks, zipWorkers[w].req.LineNum,
                          [opened |-> canOpen, exists |-> exists])
  /\ UNCHANGED <<numWorkers, exited, panicked, fileText, provider, mainPc,
                 lineNumber, line, closed, cancelled, resultWorkers, topic,
                 kafkaConsumers, promWorkers, gauges, mutex, metricsFile,
                 startFile, calls, sent, writes, applied, lastDone,
                 reachable, elapsed, ensured, brokerTopics, db, rowLimit,
                 cache, queryMutexes, locked, searchWorkers, writeWorkers,
                 served, apiCalls>>

\* exists := isInTSDB(req); if exists { continue }.  canOpen tells whether
\* os.Open of the log succeeds.
ZipCheck(w, canOpen) ==
  /\ Running /\ zipWorkers[w].pc = "check"
  /\ LET exists == isInTSDB(zipWorkers[w].req, metricsFile, canOpen)
     IN  /\ zipWorkers' =
              [zipWorkers EXCEPT ![w].pc = IF exists THEN "recv" ELSE "geocode"]
         /\ checks' = Put(checks, zipWorkers[w].req.LineNum,
                          [opened |-> canOpen, exists |-> exists])
  /\ UNCHANGED <<numWorkers, exited, panicked, fileText, provider, mainPc,
                 lineNumber, line, closed, cancelled, resultWorkers, topic,
                 kafkaConsumers, promWorkers, gauges, mutex, metricsFile,
                 startFile, calls, sent, writes, applied, lastDone,
                 reachable, elapsed, ensured, brokerTopics, db, rowLimit,
                 cache, queryMutexes, locked, searchWorkers, writeWorkers,
                 served, apiCalls>>

GeoCalled(w) ==
  [calls EXCEPT ![zipWorkers[w].req.LineNum].geo = @ + 1]

\* The GET returns and the body decodes: convertToCoordinates goes on with
\* the decoded response.
ZipGeocode(w, body) ==
  /\ Running /\ zipWorkers[w].pc = "geocode"
  /\ calls' = GeoCalled(w)
  /\ LET r == convertToCoordinates(zipWorkers[w].req, body)
     IN  IF r.exit
         THEN /\ exited' = TRUE
              /\ zipWorkers' = [zipWorkers EXCEPT ![w].cod = r.Cod]
         ELSE /\ exited' = exited
              /\ zipWorkers' =
                   [zipWorkers EXCEPT
                      ![w].pc = IF r.success THEN "send" ELSE "recv",
                      ![w].post = IF r.success THEN r.post ELSE @,
                      ![w].cod = IF r.success THEN r.Cod ELSE NilCod]
  /\ UNCHANGED <<numWorkers, panicked, fileText, provider, mainPc,
                 lineNumber, line, closed, cancelled, resultWorkers, topic,
                 kafkaConsumers, promWorkers, gauges, mutex, metricsFile,
                 startFile, checks, sent, writes, applied, lastDone,
                 reachable, elapsed, ensured, brokerTopics, db, rowLimit,
                 cache, queryMutexes, locked, searchWorkers, writeWorkers,
                 served, apiCalls>>

\* The provider finds the ZIP code.
ZipGeocodeOk(w) == ZipGeocode(w, FoundBody)

\* The provider answers with its invalid-credential body.
ZipGeocodeUnauthorized(w) == ZipGeocode(w, UnauthorizedBody)

\* A faulty ZipGeocodeNotFound: the provider is asked again.
ZipGeocodeNotFoundRetried(w) ==
  /\ Running /\ zipWorkers[w].pc = "geocode"
  /\ calls' = GeoCalled(w)
  /\ UNCHANGED <<numWorkers, exited, panicked, fileText, provider, mainPc,
                 lineNumber, line, closed, cancelled, zipWorkers,
                 resultWorkers, topic, kafkaConsumers, promWorkers, gauges,
                 mutex, metricsFile, startFile, checks, sent, writes,
                 applied, lastDone, reachable, elapsed, ensured,
                 brokerTopics, db, rowLimit, cache, queryMutexes, locked,
                 searchWorkers, writeWorkers, served, apiCalls>>

\* The provider answers with its not-found body: the request is dropped.
ZipGeocodeNotFound(w) == ZipGeocode(w, NotFoundBody)

\* The GET or the decoding fails: check(err) ends the process.
ZipGeocodeFatal(w) ==
  /\ Running /\ zipWorkers[w].pc = "geocode"
  /\ calls' = GeoCalled(w)
  /\ exited' = TRUE
  /\ UNCHANGED <<numWorkers, panicked, fileText, provider, mainPc,
                 lineNumber, line, closed, cancelled, zipWorkers,
                 resultWorkers, topic, kafkaConsumers, promWorkers, gauges,
                 mutex, metricsFile, startFile, checks, sent, writes,
                 applied, lastDone, reachable, elapsed, ensured,
                 brokerTopics, db, rowLimit, cache, queryMutexes, locked,
                 searchWorkers, writeWorkers, served, apiCalls>>

\* A faulty ZipSend: requestsChan has a buffer, the resolver worker goes on
\* before a fetch worker has received the location.
ZipSendBuffered(w, v) ==
  /\ Running /\ zipWorkers[w].pc = "send"
  /\ zipWorkers' = [zipWorkers EXCEPT ![w].pc = "recv"]
  /\ sent' = Sent("requestsChan", zipWorkers[w].post.LineNum)
  /\ UNCHANGED <<numWorkers, exited, panicked, fileText, provider, mainPc,
                 lineNumber, line, closed, cancelled, resultWorkers, topic,
                 kafkaConsumers, promWorkers, gauges, mutex, metricsFile,
                 startFile, calls, checks, writes, applied, lastDone,
                 reachable, elapsed, ensured, brokerTopics, db, rowLimit,
                 cache, queryMutexes, locked, searchWorkers, writeWorkers,
                 served, apiCalls>>

\* requestsChan <- newRequest, received by fetch worker v.
ZipSend(w, v) ==
  /\ Running /\ zipWorkers[w].pc = "send"
  /\ IF closed["requestsChan"]
     THEN Panic("send on closed channel")
     ELSE /\ resultWorkers[v].pc = "recv"
          /\ zipWorkers' = [zipWorkers EXCEPT ![w].pc = "recv",
                                              ![w].cod = NilCod]
          /\ resultWorkers' = [resultWorkers EXCEPT ![v].pc = "call",
                                                    ![v].req = zipWorkers[w].post]
          /\ sent' = Sent("requestsChan", zipWorkers[w].post.LineNum)
          /\ UNCHANGED <<numWorkers, exited, panicked, fileText, provider, mainPc,
                         lineNumber, line, closed, cancelled, topic, kafkaConsumers,
                         promWorkers, gauges, mutex, metricsFile, startFile, calls,
                         checks, writes, applied, lastDone, reachable, elapsed,
                         ensured, brokerTopics, db, rowLimit, cache, queryMutexes,
                         locked, searchWorkers, writeWorkers, served, apiCalls>>

(***************************************************************************)
(* Fetch workers: processRequest.                                          *)
(***************************************************************************)
ResultsRecvClosed(v) ==
  /\ Running /\ resultWorkers[v].pc = "recv"
  /\ closed["requestsChan"]
  /\ resultWorkers' = [resultWorkers EXCEPT ![v].pc = "done"]
  /\ UNCHANGED <<numWorkers, exited, panicked, fileText, provider, mainPc,
                 lineNumber, line, closed, cancelled, zipWorkers, topic,
                 kafkaConsumers, promWorkers, gauges, mutex, metricsFile,
                 startFile, calls, checks, sent, writes, applied, lastDone,
                 reachable, elapsed, ensured, brokerTopics, db, rowLimit,
                 cache, queryMutexes, locked, searchWorkers, writeWorkers,
                 served, apiCalls>>

ForecastCalled(v) ==
  [calls EXCEPT ![resultWorkers[v].req.LineNum].forecast = @ + 1]

\* The GET returns, the body decodes and results.Cod == "200".
ProcessRequestCall(v) ==
  /\ Running /\ resultWorkers[v].pc = "call"
  /\ calls' = ForecastCalled(v)
  /\ LET days == resultWorkers[v].req.Days
         len  == ForecastLen(days * SamplesPerDay, provider.missing)
     IN  resultWorkers' =
           [resultWorkers EXCEPT
              ![v].len = len, ![v].i = 0, ![v].j = 1,
              ![v].pc = IF LoopRuns(0, days, len) THEN "publish" ELSE "recv"]
  /\ UNCHANGED <<numWorkers, exited, panicked, fileText, provider, mainPc,
                 lineNumber, line, closed, cancelled, zipWorkers, topic,
                 kafkaConsumers, promWorkers, gauges, mutex, metricsFile,
                 startFile, checks, sent, writes, applied, lastDone,
                 reachable, elapsed, ensured, brokerTopics, db, rowLimit,
                 cache, queryMutexes, locked, searchWorkers, writeWorkers,
                 served, apiCalls>>

\* A faulty ProcessRequestFatal: the failed call is made again.
ProcessRequestFatalRetried(v) ==
  /\ Running /\ resultWorkers[v].pc = "call"
  /\ calls' = ForecastCalled(v)
  /\ UNCHANGED <<numWorkers, exited, panicked, fileText, provider, mainPc,
                 lineNumber, line, closed, cancelled, zipWorkers,
                 resultWorkers, topic, kafkaConsumers, promWorkers, gauges,
                 mutex, metricsFile, startFile, checks, sent, writes,
                 applied, lastDone, reachable, elapsed, ensured,
                 brokerTopics, db, rowLimit, cache, queryMutexes, locked,
                 searchWorkers, writeWorkers, served, apiCalls>>

\* check(err) fails or results.Cod != "200": os.Exit(1).
ProcessRequestFatal(v) ==
  /\ Running /\ resultWorkers[v].pc = "call"
  /\ calls' = ForecastCalled(v)
  /\ exited' = TRUE
  /\ UNCHANGED <<numWorkers, panicked, fileText, provider, mainPc,
                 lineNumber, line, closed, cancelled, zipWorkers,
                 resultWorkers, topic, kafkaConsumers, promWorkers, gauges,
                 mutex, metricsFile, startFile, checks, sent, writes,
                 applied, lastDone, reachable, elapsed, ensured,
                 brokerTopics, db, rowLimit, cache, queryMutexes, locked,
                 searchWorkers, writeWorkers, served, apiCalls>>

\* The WriteMessages calls worker v has made for its request so far.
WriteCalls(v) == Len(topics) * resultWorkers[v].i + resultWorkers[v].j - 1

\* The j-th WriteMessages call of iteration i; delivered tells whether the
\* broker took the message (the error WriteMessages returns is dropped).
WriteMessages(v, delivered) ==
  /\ Running /\ resultWorkers[v].pc = "publish"
  /\ LET me   == resultWorkers[v]
         r    == DailyResponse(provider, SampleIndex(me.i))
         date == FormatDate(SlotDay(r.Time))
         key  == MessageKey(me.req.ZIPCode, date)
         m    == [Key |-> key,
                  Value |-> Payloads(me.req.Name, date, r)[me.j]]
         id   == <<me.req.LineNum, me.j, date>>
         last == me.j = Len(topics)
     IN  /\ topic' = IF delivered
                     THEN [topic EXCEPT ![me.j] = Append(@, m)]
                     ELSE topic
         /\ writes' = Put(writes, id, At(writes, id, 0) + 1)
         /\ resultWorkers' =
              [resultWorkers EXCEPT
                 ![v].j = IF last THEN 1 ELSE me.j + 1,
                 ![v].i = IF last THEN me.i + 1 ELSE me.i,
                 ![v].pc = IF last /\ ~LoopRuns(me.i + 1, me.req.Days, me.len)
                           THEN "recv" ELSE "publish"]
  /\ UNCHANGED <<numWorkers, exited, panicked, fileText, provider, mainPc,
                 lineNumber, line, closed, cancelled, zipWorkers,
                 kafkaConsumers, promWorkers, gauges, mutex, metricsFile,
                 startFile, calls, checks, sent, applied, lastDone,
                 reachable, elapsed, ensured, brokerTopics, db, rowLimit,
                 cache, queryMutexes, locked, searchWorkers, writeWorkers,
                 served, apiCalls>>

(***************************************************************************)
(* Broker consumers: consumeKafkaTopic.                                    *)
(***************************************************************************)
\* A faulty ConsumeRead: the reader does not advance, the same message is
\* returned again.
ConsumeReadSameOffset(c) ==
  /\ Running /\ kafkaConsumers[c].pc = "read"
  /\ kafkaConsumers[c].off < Len(topic[c[2]])
  /\ LET m        == topic[c[2]][kafkaConsumers[c].off + 1]
         keyParts == SplitN2(m.Key, "-")
     IN  /\ kafkaConsumers' =
              [kafkaConsumers EXCEPT
                 ![c].pc = "send",
                 ![c].msg = [UnmarshalMessage(m.Value) EXCEPT
                               !.Zip = keyParts[1],
                               !.Date = keyParts[2],
                               !.Topic = topics[c[2]]]]
         /\ UNCHANGED <<numWorkers, exited, panicked, fileText, provider, mainPc,
                        lineNumber, line, closed, cancelled, zipWorkers,
                        resultWorkers, topic, promWorkers, gauges, mutex,
                        metricsFile, startFile, calls, checks, sent, writes,
                        applied, lastDone, reachable, elapsed, ensured,
                        brokerTopics, db, rowLimit, cache, queryMutexes, locked,
                        searchWorkers, writeWorkers, served, apiCalls>>

\* reader.ReadMessage returns the next message of the topic.
ConsumeRead(c) ==
  /\ Running /\ kafkaConsumers[c].pc = "read"
  /\ kafkaConsumers[c].off < Len(topic[c[2]])
  /\ LET m        == topic[c[2]][kafkaConsumers[c].off + 1]
         keyParts == SplitN2(m.Key, "-")
     IN  IF Len(keyParts) < 2
         THEN Panic("index out of range")
         ELSE /\ kafkaConsumers' =
                   [kafkaConsumers EXCEPT
                      ![c].pc = "send",
                      ![c].off = @ + 1,
                      ![c].msg = [UnmarshalMessage(m.Value) EXCEPT
                                    !.Zip = keyParts[1],
                                    !.Date = keyParts[2],
                                    !.Topic = topics[c[2]]]]
              /\ UNCHANGED <<numWorkers, exited, panicked, fileText, provider, mainPc,
                             lineNumber, line, closed, cancelled, zipWorkers,
                             resultWorkers, topic, promWorkers, gauges, mutex,
                             metricsFile, startFile, calls, checks, sent, writes,
                             applied, lastDone, reachable, elapsed, ensured,
                             brokerTopics, db, rowLimit, cache, queryMutexes, locked,
                             searchWorkers, writeWorkers, served, apiCalls>>

\* A faulty ConsumeCancelled: the consumer does not look at the error and
\* reads again.
ConsumeCancelledUnseen(c) ==
  /\ Running /\ kafkaConsumers[c].pc = "read"
  /\ cancelled
  /\ kafkaConsumers' = [kafkaConsumers EXCEPT ![c].pc = "read"]
  /\ UNCHANGED <<numWorkers, exited, panicked, fileText, provider, mainPc,
                 lineNumber, line, closed, cancelled, zipWorkers,
                 resultWorkers, topic, promWorkers, gauges, mutex,
                 metricsFile, startFile, calls, checks, sent, writes,
                 applied, lastDone, reachable, elapsed, ensured,
                 brokerTopics, db, rowLimit, cache, queryMutexes, locked,
                 searchWorkers, writeWorkers, served, apiCalls>>

\* A faulty ConsumeCancelled: the consumer also gives up its send on
\* metricsChan when the context is cancelled.
ConsumeCancelledAtSend(c) ==
  /\ Running /\ kafkaConsumers[c].pc \in {"read", "send"}
  /\ cancelled
  /\ kafkaConsumers' = [kafkaConsumers EXCEPT ![c].pc = "done"]
  /\ UNCHANGED <<numWorkers, exited, panicked, fileText, provider, mainPc,
                 lineNumber, line, closed, cancelled, zipWorkers,
                 resultWorkers, topic, promWorkers, gauges, mutex,
                 metricsFile, startFile, calls, checks, sent, writes,
                 applied, lastDone, reachable, elapsed, ensured,
                 brokerTopics, db, rowLimit, cache, queryMutexes, locked,
                 searchWorkers, writeWorkers, served, apiCalls>>

\* reader.ReadMessage returns context.Canceled.
ConsumeCancelled(c) ==
  /\ Running /\ kafkaConsumers[c].pc = "read"
  /\ cancelled
  /\ kafkaConsumers' = [kafkaConsumers EXCEPT ![c].pc = "done"]
  /\ UNCHANGED <<numWorkers, exited, panicked, fileText, provider, mainPc,
                 lineNumber, line, closed, cancelled, zipWorkers,
                 resultWorkers, topic, promWorkers, gauges, mutex,
                 metricsFile, startFile, calls, checks, sent, writes,
                 applied, lastDone, reachable, elapsed, ensured,
                 brokerTopics, db, rowLimit, cache, queryMutexes, locked,
                 searchWorkers, writeWorkers, served, apiCalls>>

\* A faulty ConsumeReadError: the consumer returns on every error of
\* ReadMessage.
ConsumeReadErrorReturns(c) ==
  /\ Running /\ kafkaConsumers[c].pc = "read"
  /\ kafkaConsumers' = [kafkaConsumers EXCEPT ![c].pc = "done"]
  /\ UNCHANGED <<numWorkers, exited, panicked, fileText, provider, mainPc,
                 lineNumber, line, closed, cancelled, zipWorkers,
                 resultWorkers, topic, promWorkers, gauges, mutex,
                 metricsFile, startFile, calls, checks, sent, writes,
                 applied, lastDone, reachable, elapsed, ensured,
                 brokerTopics, db, rowLimit, cache, queryMutexes, locked,
                 searchWorkers, writeWorkers, served, apiCalls>>

\* reader.ReadMessage returns another error: json.Unmarshal of the empty
\* message fails and check(err) ends the process.
ConsumeReadError(c) ==
  /\ Running /\ kafkaConsumers[c].pc = "read"
  /\ exited' = TRUE
  /\ UNCHANGED <<numWorkers, panicked, fileText, provider, mainPc,
                 lineNumber, line, closed, cancelled, zipWorkers,
                 resultWorkers, topic, kafkaConsumers, promWorkers, gauges,
                 mutex, metricsFile, startFile, calls, checks, sent, writes,
                 applied, lastDone, reachable, elapsed, ensured,
                 brokerTopics, db, rowLimit, cache, queryMutexes, locked,
                 searchWorkers, writeWorkers, served, apiCalls>>

(***************************************************************************)
(* Aggregation workers: updateMetrics.                                     *)
(***************************************************************************)
GaugeKey(msg) == <<msg.Topic, msg.Zip, msg.Date>>

\* Worker a is inside updateMetrics.
InUpdate(a) == promWorkers[a].pc \notin {"recv", "done"}

\* metricsChan <- msg, received by aggregation worker a, which enters
\* updateMetrics(msg).  overlapped notes the calls for the same family and
\* key that run at the same time.
ConsumeSend(c, a) ==
  /\ Running /\ kafkaConsumers[c].pc = "send"
  /\ IF closed["metricsChan"]
     THEN Panic("send on closed channel")
     ELSE /\ promWorkers[a].pc = "recv"
          /\ kafkaConsumers' = [kafkaConsumers EXCEPT ![c].pc = "read"]
          /\ LET msg  == kafkaConsumers[c].msg
                 same == {b \in Workers \ {a} :
                            InUpdate(b) /\
                            GaugeKey(promWorkers[b].msg) = GaugeKey(msg)}
             IN  promWorkers' =
                   [b \in Workers |->
                      IF b = a
                      THEN [pc  |-> IF GaugeOps(msg) = <<>>
                                    THEN "lock" ELSE "gauge",
                            msg |-> msg,
                            k   |-> 1,
                            src |-> <<c[2], kafkaConsumers[c].off>>,
                            overlapped |-> same # {}]
                      ELSE IF b \in same
                      THEN [promWorkers[b] EXCEPT !.overlapped = TRUE]
                      ELSE promWorkers[b]]
          /\ UNCHANGED <<numWorkers, exited, panicked, fileText, provider, mainPc,
                         lineNumber, line, closed, cancelled, zipWorkers,
                         resultWorkers, topic, gauges, mutex, metricsFile,
                         startFile, calls, checks, sent, writes, applied, lastDone,
                         reachable, elapsed, ensured, brokerTopics, db, rowLimit,
                         cache, queryMutexes, locked, searchWorkers, writeWorkers,
                         served, apiCalls>>

PromRecvClosed(a) ==
  /\ Running /\ promWorkers[a].pc = "recv"
  /\ closed["metricsChan"]
  /\ promWorkers' = [promWorkers EXCEPT ![a].pc = "done"]
  /\ UNCHANGED <<numWorkers, exited, panicked, fileText, provider, mainPc,
                 lineNumber, line, closed, cancelled, zipWorkers,
                 resultWorkers, topic, kafkaConsumers, gauges, mutex,
                 metricsFile, startFile, calls, checks, sent, writes,
                 applied, lastDone, reachable, elapsed, ensured,
                 brokerTopics, db, rowLimit, cache, queryMutexes, locked,
                 searchWorkers, writeWorkers, served, apiCalls>>

\* A faulty UpdateGauge: the label values are given in the wrong order.
UpdateGaugeLabelsSwapped(a) ==
  /\ Running /\ promWorkers[a].pc = "gauge"
  /\ LET me  == promWorkers[a]
         ops == GaugeOps(me.msg)
     IN  /\ gauges' = SetGauge(gauges, ops[me.k][1], me.msg.Date, me.msg.Zip,
                               ops[me.k][2])
         /\ promWorkers' =
              [promWorkers EXCEPT
                 ![a].k = @ + 1,
                 ![a].pc = IF me.k = Len(ops) THEN "lock" ELSE "gauge"]
  /\ UNCHANGED <<numWorkers, exited, panicked, fileText, provider, mainPc,
                 lineNumber, line, closed, cancelled, zipWorkers,
                 resultWorkers, topic, kafkaConsumers, mutex, metricsFile,
                 startFile, calls, checks, sent, writes, applied, lastDone,
                 reachable, elapsed, ensured, brokerTopics, db, rowLimit,
                 cache, queryMutexes, locked, searchWorkers, writeWorkers,
                 served, apiCalls>>

\* The k-th Set call of the switch.
UpdateGauge(a) ==
  /\ Running /\ promWorkers[a].pc = "gauge"
  /\ LET me  == promWorkers[a]
         ops == GaugeOps(me.msg)
     IN  /\ gauges' = SetGauge(gauges, ops[me.k][1], me.msg.Zip, me.msg.Date,
                               ops[me.k][2])
         /\ promWorkers' =
              [promWorkers EXCEPT
                 ![a].k = @ + 1,
                 ![a].pc = IF me.k = Len(ops) THEN "lock" ELSE "gauge"]
  /\ UNCHANGED <<numWorkers, exited, panicked, fileText, provider, mainPc,
                 lineNumber, line, closed, cancelled, zipWorkers,
                 resultWorkers, topic, kafkaConsumers, mutex, metricsFile,
                 startFile, calls, checks, sent, writes, applied, lastDone,
                 reachable, elapsed, ensured, brokerTopics, db, rowLimit,
                 cache, queryMutexes, locked, searchWorkers, writeWorkers,
                 served, apiCalls>>

\* A faulty UpdateLock: the worker goes on while another holds the mutex.
UpdateLockNotExclusive(a) ==
  /\ Running /\ promWorkers[a].pc = "lock"
  /\ mutex' = a
  /\ promWorkers' = [promWorkers EXCEPT ![a].pc = "open"]
  /\ UNCHANGED <<numWorkers, exited, panicked, fileText, provider, mainPc,
                 lineNumber, line, closed, cancelled, zipWorkers,
                 resultWorkers, topic, kafkaConsumers, gauges, metricsFile,
                 startFile, calls, checks, sent, writes, applied, lastDone,
                 reachable, elapsed, ensured, brokerTopics, db, rowLimit,
                 cache, queryMutexes, locked, searchWorkers, writeWorkers,
                 served, apiCalls>>

\* metricsFileMutex.Lock()
UpdateLock(a) ==
  /\ Running /\ promWorkers[a].pc = "lock"
  /\ mutex = 0
  /\ mutex' = a
  /\ promWorkers' = [promWorkers EXCEPT ![a].pc = "open"]
  /\ UNCHANGED <<numWorkers, exited, panicked, fileText, provider, mainPc,
                 lineNumber, line, closed, cancelled, zipWorkers,
                 resultWorkers, topic, kafkaConsumers, gauges, metricsFile,
                 startFile, calls, checks, sent, writes, applied, lastDone,
                 reachable, elapsed, ensured, brokerTopics, db, rowLimit,
                 cache, queryMutexes, locked, searchWorkers, writeWorkers,
                 served, apiCalls>>

\* os.OpenFile succeeds.
UpdateOpen(a) ==
  /\ Running /\ promWorkers[a].pc = "open"
  /\ promWorkers' = [promWorkers EXCEPT ![a].pc = "write"]
  /\ UNCHANGED <<numWorkers, exited, panicked, fileText, provider, mainPc,
                 lineNumber, line, closed, cancelled, zipWorkers,
                 resultWorkers, topic, kafkaConsumers, gauges, mutex,
                 metricsFile, startFile, calls, checks, sent, writes,
                 applied, lastDone, reachable, elapsed, ensured,
                 brokerTopics, db, rowLimit, cache, queryMutexes, locked,
                 searchWorkers, writeWorkers, served, apiCalls>>

\* updateMetrics returns.
Returned(a) ==
  Put(lastDone, GaugeKey(promWorkers[a].msg),
      [msg |-> promWorkers[a].msg, overlapped |-> promWorkers[a].overlapped])

\* A faulty UpdateOpenFail: the return leaves the mutex locked.
UpdateOpenFailKeepsLock(a) ==
  /\ Running /\ promWorkers[a].pc = "open"
  /\ promWorkers' = [promWorkers EXCEPT ![a].pc = "recv"]
  /\ lastDone' = Returned(a)
  /\ UNCHANGED <<numWorkers, exited, panicked, fileText, provider, mainPc,
                 lineNumber, line, closed, cancelled, zipWorkers,
                 resultWorkers, topic, kafkaConsumers, gauges, mutex,
                 metricsFile, startFile, calls, checks, sent, writes,
                 applied, reachable, elapsed, ensured, brokerTopics, db,
                 rowLimit, cache, queryMutexes, locked, searchWorkers,
                 writeWorkers, served, apiCalls>>

\* os.OpenFile fails: return, the deferred Unlock runs.
UpdateOpenFail(a) ==
  /\ Running /\ promWorkers[a].pc = "open"
  /\ mutex' = 0
  /\ promWorkers' = [promWorkers EXCEPT ![a].pc = "recv"]
  /\ lastDone' = Returned(a)
  /\ UNCHANGED <<numWorkers, exited, panicked, fileText, provider, mainPc,
                 lineNumber, line, closed, cancelled, zipWorkers,
                 resultWorkers, topic, kafkaConsumers, gauges, metricsFile,
                 startFile, calls, checks, sent, writes, applied, reachable,
                 elapsed, ensured, brokerTopics, db, rowLimit, cache,
                 queryMutexes, locked, searchWorkers, writeWorkers, served,
                 apiCalls>>

\* file.Write(data)
UpdateWrite(a) ==
  /\ Running /\ promWorkers[a].pc = "write"
  /\ metricsFile' =
       [metricsFile EXCEPT
          !.tail = Append(@, JsonChunk(MarshalMessage(promWorkers[a].msg)))]
  /\ promWorkers' = [promWorkers EXCEPT ![a].pc = "newline"]
  /\ UNCHANGED <<numWorkers, exited, panicked, fileText, provider, mainPc,
                 lineNumber, line, closed, cancelled, zipWorkers,
                 resultWorkers, topic, kafkaConsumers, gauges, mutex,
                 startFile, calls, checks, sent, writes, applied, lastDone,
                 reachable, elapsed, ensured, brokerTopics, db, rowLimit,
                 cache, queryMutexes, locked, searchWorkers, writeWorkers,
                 served, apiCalls>>

\* file.Write("\n"), then the deferred Close and Unlock.
UpdateNewline(a) ==
  /\ Running /\ promWorkers[a].pc = "newline"
  /\ metricsFile' = [lines |-> Append(metricsFile.lines, metricsFile.tail),
                     tail |-> <<>>]
  /\ mutex' = 0
  /\ applied' = applied \cup {[src  |-> promWorkers[a].src,
                               Zip  |-> promWorkers[a].msg.Zip,
                               Date |-> promWorkers[a].msg.Date]}
  /\ promWorkers' = [promWorkers EXCEPT ![a].pc = "recv"]
  /\ lastDone' = Returned(a)
  /\ UNCHANGED <<numWorkers, exited, panicked, fileText, provider, mainPc,
                 lineNumber, line, closed, cancelled, zipWorkers,
                 resultWorkers, topic, kafkaConsumers, gauges, startFile,
                 calls, checks, sent, writes, reachable, elapsed, ensured,
                 brokerTopics, db, rowLimit, cache, queryMutexes, locked,
                 searchWorkers, writeWorkers, served, apiCalls>>

(***************************************************************************)
(* The pipeline.  NextOK are the steps of a run in which the broker and    *)
(* the providers answer and the log can be opened; Next adds the failures  *)
(* that end the process.                                                   *)
(***************************************************************************)
NextOK ==
  \/ MainScan
  \/ MainScanEnd
  \/ MainFileWait
  \/ MainClosePre
  \/ MainZipWait
  \/ MainCloseRequests
  \/ MainResultsWait
  \/ MainCancel
  \/ MainKafkaWait
  \/ MainCloseMetrics
  \/ MainPromWait
  \/ \E i \in LineIds : LineParse(i)
  \/ \E i \in LineIds, w \in Workers : LineSend(i, w)
  \/ \E w \in Workers : ZipRecvClosed(w)
  \/ \E w \in Workers : ZipCheck(w, TRUE)
  \/ \E w \in Workers : ZipGeocodeOk(w)
  \/ \E w \in Workers : ZipGeocodeNotFound(w)
  \/ \E w \in Workers, v \in Workers : ZipSend(w, v)
  \/ \E v \in Workers : ResultsRecvClosed(v)
  \/ \E v \in Workers : ProcessRequestCall(v)
  \/ \E v \in Workers : WriteMessages(v, TRUE)
  \/ \E c \in Consumers : ConsumeRead(c)
  \/ \E c \in Consumers : ConsumeCancelled(c)
  \/ \E c \in Consumers, a \in Workers : ConsumeSend(c, a)
  \/ \E a \in Workers : PromRecvClosed(a)
  \/ \E a \in Workers : UpdateGauge(a)
  \/ \E a \in Workers : UpdateLock(a)
  \/ \E a \in Workers : UpdateOpen(a)
  \/ \E a \in Workers : UpdateWrite(a)
  \/ \E a \in Workers : UpdateNewline(a)

Failure ==
  \/ \E w \in Workers : ZipGeocodeFatal(w)
  \/ \E v \in Workers : ProcessRequestFatal(v)
  \/ \E c \in Consumers : ConsumeReadError(c)

Next == NextOK \/ Failure

Spec == Init /\ [][Next]_vars

\* Some goroutine that can run does run.
FairSpec == Init /\ [][NextOK]_vars /\ WF_vars(NextOK)

(***************************************************************************)
(* Properties of the pipeline.                                             *)
(***************************************************************************)
PhaseChannels == {"preCoordinateChan", "requestsChan", "metricsChan"}

\* C1: in every interleaving no goroutine sends on preCoordinateChan,
\* requestsChan or metricsChan after it was closed, and none of the three is
\* closed twice: the run never ends in the panic of such a send or close, and
\* no sender is left at its send once the channel is closed.
NoSendOnClosedNoDoubleClose ==
  /\ panicked \notin {"send on closed channel", "close of closed channel"}
  /\ closed["preCoordinateChan"] => \A i \in LineIds : line[i].pc # "send"
  /\ closed["requestsChan"] => \A w \in Workers : zipWorkers[w].pc # "send"
  /\ closed["metricsChan"] =>
       \A c \in Consumers : kafkaConsumers[c].pc # "send"

\* C1's case: all three channels are closed after each carried a request or
\* an event.
ClosedAfterTraffic ==
  /\ \A ch \in PhaseChannels : closed[ch]
  /\ \E i \in LineIds :
       sent["preCoordinateChan"][i] > 0 /\ sent["requestsChan"][i] > 0
  /\ applied # {}

\* C2: the shutdown advances in order and only over drained stages:
\* preCoordinateChan is closed only once every line goroutine has finished,
\* requestsChan only once every resolver worker has exited, the context is
\* cancelled only once every fetch worker has exited (nothing is published
\* after it), metricsChan is closed only once every consumer has exited, and
\* main is past promWG.Wait() only once every aggregation worker has exited.
ShutdownInOrder ==
  /\ closed["preCoordinateChan"] =>
       /\ mainPc # "scan"
       /\ \A i \in LineIds : line[i].pc = "done"
  /\ closed["requestsChan"] =>
       closed["preCoordinateChan"] /\ AllDone(zipWorkers)
  /\ cancelled =>
       /\ closed["requestsChan"] /\ AllDone(resultWorkers)
       /\ \A v \in Workers : resultWorkers[v].pc # "publish"
  /\ closed["metricsChan"] => cancelled /\ AllDone(kafkaConsumers)
  /\ mainPc = "stopped" => closed["metricsChan"] /\ AllDone(promWorkers)

\* C2's case: main is past the whole shutdown of a run that published events.
StoppedAfterPublishing == mainPc = "stopped" /\ writes # <<>>

\* C3: every event a fetch worker published to a topic during the run has
\* been read by a consumer and applied to the gauges and the log when the
\* pipeline is stopped.
NoPublishedEventDropped ==
  mainPc = "stopped" =>
    \A t \in TopicIds : \A n \in 1..Len(topic[t]) :
       \E x \in applied : x.src = <<t, n>>

Stopped ==
  /\ mainPc = "stopped"
  /\ panicked = ""
  /\ \A i \in LineIds : line[i].pc = "done"
  /\ AllDone(zipWorkers) /\ AllDone(resultWorkers)
  /\ AllDone(kafkaConsumers) /\ AllDone(promWorkers)

\* C4: under fair scheduling, with the broker and the providers answering,
\* the shutdown completes for every input (empty, all lines invalid, valid
\* requests): main gets past promWG.Wait() with no panic and with every
\* line, resolver, fetch, consumer and aggregation goroutine returned.
ShutdownCompletes == <>Stopped

\* C4's case: the run of an input with a valid request that was fetched has
\* stopped.
StoppedAfterValidRequest ==
  Stopped /\ \E i \in LineIds : calls[i].forecast > 0

\* The log holds, on a line of its own, a record for zip and day.
HasRecord(file, zip, day) ==
  \E n \in 1..Len(file.lines) :
     /\ LineParses(file.lines[n])
     /\ UnmarshalMessage(file.lines[n][1].obj).Zip = zip
     /\ UnmarshalMessage(file.lines[n][1].obj).Date = FormatDate(day)

NoWorkFor(i) ==
  /\ calls[i] = [geo |-> 0, forecast |-> 0]
  /\ sent["requestsChan"][i] = 0
  /\ \A id \in DOMAIN writes : id[1] # i

\* C5: a request that isInTSDB reports as present causes no geocoding call,
\* no send on requestsChan, no forecast call and no publication; and when the
\* log the run starts with holds a record for the request's ZIP code and
\* furthest date (as for "3|A" with a record for today+2), the request makes
\* no provider call at all.
DedupHitDoesNoWork ==
  /\ \A i \in DOMAIN checks : checks[i].exists => NoWorkFor(i)
  /\ \A i \in LineIds :
       LET r == parseLine(fileText[i], i)
       IN  (r.success /\
            HasRecord(startFile, r.req.ZIPCode, Today + r.req.Days - 1))
             => NoWorkFor(i)

\* C5's case: the run of "3|A" over a log with a record for today+2 has
\* stopped and the gate reported the request as present.
DedupHitRunStopped ==
  /\ mainPc = "stopped"
  /\ \E i \in DOMAIN checks :
       /\ checks[i].exists
       /\ line[i].req.Days = 3
       /\ HasRecord(startFile, line[i].req.ZIPCode, Today + 2)

(***************************************************************************)
(* processRequest on its own: a fetch worker has received the request of   *)
(* the line "d|A" and is about to call the forecast provider; the provider *)
(* answers with a list that starts at any slot of the day and holds any    *)
(* number of samples up to cnt; the broker may refuse up to                *)
(* MaxWriteFailures messages.                                              *)
(***************************************************************************)
RequestLine(d) == <<Digits[d + 1], "|", "A">>

FetchProviders(d) ==
  { [start |-> Today * SamplesPerDay + o, missing |-> m, sample |-> MildSample]
      : o \in 0..(SamplesPerDay - 1), m \in 0..(d * SamplesPerDay) }

FetchInit ==
  /\ StartupDone
  /\ NewsIdle
  /\ numWorkers = 1
  /\ \E d \in 1..MaxDays :
       /\ fileText = <<RequestLine(d)>>
       /\ provider \in FetchProviders(d)
  /\ metricsFile = EmptyFile
  /\ startFile = EmptyFile
  /\ topic = [t \in TopicIds |-> <<>>]
  /\ exited = FALSE
  /\ panicked = ""
  /\ mainPc = "fileWait"
  /\ lineNumber = 1
  /\ line = [i \in LineIds |->
               [pc |-> "done", req |-> parseLine(fileText[i], i).req]]
  /\ closed = [ch \in {"preCoordinateChan", "requestsChan", "metricsChan"}
                 |-> FALSE]
  /\ cancelled = FALSE
  /\ zipWorkers =
       [w \in Workers |->
          [pc |-> "recv", req |-> line[1].req,
           post |-> [Days |-> line[1].req.Days, Name |-> "Town",
                     ZIPCode |-> line[1].req.ZIPCode, LineNum |-> 1],
           cod |-> NilCod]]
  /\ resultWorkers =
       [w \in Workers |->
          [pc |-> "call", req |-> zipWorkers[w].post, len |-> 0, i |-> 0,
           j |-> 1]]
  /\ kafkaConsumers =
       [c \in Consumers |-> [pc |-> "read", off |-> 0, msg |-> ZeroMessage]]
  /\ promWorkers = [w \in Workers |-> IdlePromWorker]
  /\ gauges = <<>>
  /\ mutex = 0
  /\ calls = [i \in LineIds |-> [geo |-> 1, forecast |-> 0]]
  /\ checks = [i \in LineIds |-> [opened |-> TRUE, exists |-> FALSE]]
  /\ sent = [ch \in {"preCoordinateChan", "requestsChan"} |->
               [i \in LineIds |-> 1]]
  /\ writes = <<>>
  /\ applied = {}
  /\ lastDone = <<>>

RECURSIVE Delivered(_)
Delivered(t) == IF t = 0 THEN 0 ELSE Len(topic[t]) + Delivered(t - 1)

\* The calls of worker v the broker did not take (one worker, and topics
\* that were empty before).
WriteFailures(v) == WriteCalls(v) - Delivered(Len(topics))

FetchNext ==
  \/ \E v \in Workers : ProcessRequestCall(v)
  \/ \E v \in Workers : ProcessRequestFatal(v)
  \/ \E v \in Workers : WriteMessages(v, TRUE)
  \/ \E v \in Workers :
       WriteFailures(v) < MaxWriteFailures /\ WriteMessages(v, FALSE)

FetchSpec == FetchInit /\ [][FetchNext]_vars

(***************************************************************************)
(* Properties of processRequest.                                           *)
(***************************************************************************)
\* processRequest has returned for the request worker v holds.
Fetched(v) ==
  /\ resultWorkers[v].pc = "recv"
  /\ resultWorkers[v].req.LineNum > 0
  /\ calls[resultWorkers[v].req.LineNum].forecast > 0

\* The calendar day of the first sample, and the ids of the WriteMessages
\* calls for the first k days from it: one per family and day.
FirstDay == SlotDay(provider.start)

DayWrites(lineNum, k) ==
  { <<lineNum, t, FormatDate(FirstDay + i)>> : t \in TopicIds, i \in 0..(k - 1) }

WritesOf(lineNum) == {id \in DOMAIN writes : id[1] = lineNum}

\* The fields a payload of family t carries.
FamilyFields(t) ==
  {"Location", "Date"} \cup
  (CASE t = 1 -> {"Temp", "FeelsLike"}
     [] t = 2 -> {"Humidity"}
     [] t = 3 -> {"Speed", "Degree"}
     [] t = 4 -> {"CloudPercent"})

OwnFamilyOnly ==
  \A t \in TopicIds : \A n \in 1..Len(topic[t]) :
     DOMAIN topic[t][n].Value = FamilyFields(t)

\* C8 as claimed: once processRequest has returned for an accepted response
\* to a request of d days, 4*d events were published, one per family for
\* each of the d days, each on the topic of its family.
PublishesFourPerDay ==
  \A v \in Workers :
     Fetched(v) =>
       LET req == resultWorkers[v].req
       IN  /\ WritesOf(req.LineNum) = DayWrites(req.LineNum, req.Days)
           /\ \A id \in WritesOf(req.LineNum) : writes[id] = 1
           /\ WriteCalls(v) = Len(topics) * req.Days
           /\ OwnFamilyOnly

\* The days processRequest covers when the response holds n samples.
DaysCovered(d, n) ==
  IF d * SamplesPerDay <= n + SamplesPerDay - 1 THEN d
  ELSE (n + SamplesPerDay - 1) \div SamplesPerDay

\* C8, amended: once processRequest has returned for an accepted response
\* of n samples to a request of d days, it has made 4*min(d, ceil(n/8))
\* WriteMessages calls, one per family for each of the first
\* min(d, ceil(n/8)) days, each on the writer of its family; these are 4*d
\* calls when n > 8*(d-1).
PublishesFourPerCoveredDay ==
  \A v \in Workers :
     Fetched(v) =>
       LET req == resultWorkers[v].req
           k   == DaysCovered(req.Days, resultWorkers[v].len)
       IN  /\ WritesOf(req.LineNum) = DayWrites(req.LineNum, k)
           /\ \A id \in WritesOf(req.LineNum) : writes[id] = 1
           /\ WriteCalls(v) = Len(topics) * k
           /\ resultWorkers[v].len > SamplesPerDay * (req.Days - 1)
                => WriteCalls(v) = Len(topics) * req.Days
           /\ OwnFamilyOnly

\* C8's case: a request of three days was answered in full and its twelve
\* events are on the topics.
ThreeDaysPublished ==
  \E v \in Workers :
     /\ Fetched(v) /\ resultWorkers[v].req.Days = 3
     /\ resultWorkers[v].len = 3 * SamplesPerDay
     /\ Delivered(Len(topics)) = 3 * Len(topics)

\* The 0-based index in the response of the sample an event of topic t was
\* built from (the k-th sample's readings are the base readings plus k).
SampleOf(t, m) ==
  CASE t = 1 -> m.Value.Temp - provider.sample.Temp
    [] t = 2 -> m.Value.Humidity - provider.sample.Humidity
    [] t = 3 -> m.Value.Speed - provider.sample.Speed
    [] t = 4 -> m.Value.CloudPercent - provider.sample.All

\* No earlier sample of the response lies on the calendar day of sample k.
FirstOfItsDay(k) ==
  \A e \in 0..(k - 1) :
     SlotDay(provider.start + e) # SlotDay(provider.start + k)

\* The calendar days the response has samples on.
ResponseDays(n) == {SlotDay(provider.start + e) : e \in 0..(n - 1)}

\* C9 as claimed: whatever slot of the day the response starts at, the
\* sample an event was built from is the first sample of its calendar day in
\* the response, and once processRequest has returned, every calendar day
\* the response has samples on has got its one sample.
FirstSampleOfEachDay ==
  /\ \A t \in TopicIds : \A n \in 1..Len(topic[t]) :
        FirstOfItsDay(SampleOf(t, topic[t][n]))
  /\ \A v \in Workers :
        Fetched(v) =>
          \A day \in ResponseDays(resultWorkers[v].len) :
             \A t \in TopicIds :
                At(writes, <<resultWorkers[v].req.LineNum, t, FormatDate(day)>>,
                   0) = 1

\* C9, amended: the sample used for the i-th day of a request is the sample
\* at index 8*i of the response, 24*i hours after its first sample, and the
\* event carries that sample's calendar day; it is the first sample of its
\* calendar day in the response exactly when i = 0 or the response starts
\* at the first slot of a day; no two samples used fall on the same
\* calendar day.
EveryEighthSample ==
  /\ \A t \in TopicIds : \A n \in 1..Len(topic[t]) :
        LET m == topic[t][n]
            k == SampleOf(t, m)
        IN  /\ k % SamplesPerDay = 0
            /\ k \div SamplesPerDay < MaxDays
            /\ m.Value.Date = FormatDate(SlotDay(provider.start + k))
            /\ m.Key = <<"A">> \o <<"-">> \o m.Value.Date
            /\ FirstOfItsDay(k) <=>
                 (k = 0 \/ provider.start % SamplesPerDay = 0)
  /\ \A id \in DOMAIN writes : writes[id] = 1

\* C9's case: an event built from the ninth sample of a response that
\* starts in the middle of a day is on its topic.
NinthSampleUsed ==
  /\ provider.start % SamplesPerDay = 5
  /\ \E n \in 1..Len(topic[1]) : SampleOf(1, topic[1][n]) = SamplesPerDay

(***************************************************************************)
(* The durable log on its own: a resolver worker has received the request  *)
(* of the line "d|z" and is about to call isInTSDB while an aggregation     *)
(* worker is in updateMetrics for an event a consumer read from the cloud   *)
(* topic.  The log is what earlier runs and other writers left: records,    *)
(* lines that are no JSON, a line too long for the scanner, and possibly a  *)
(* last line without its newline (a run that ended between the two Write    *)
(* calls of updateMetrics leaves one).                                      *)
(***************************************************************************)
LogZips == {<<"A">>, <<"B">>}

LogLines ==
  { <<LogRecord("cloud", <<"A">>, Today, MildSample)>>,
    <<LogRecord("cloud", <<"B">>, Today + 1, MildSample)>>,
    <<GarbageChunk>>,
    <<LongChunk>> }

LogTails ==
  { <<>>, <<LogRecord("cloud", <<"B">>, Today, MildSample)>>, <<GarbageChunk>> }

LogFiles ==
  { [lines |-> ls, tail |-> tl] :
      ls \in SeqsUpTo(LogLines, MaxLogLines), tl \in LogTails }

\* The event the aggregation worker holds, as the message of the topic.
LogEvents ==
  { [Key   |-> MessageKey(z, FormatDate(day)),
     Value |-> Payloads("Town", FormatDate(day), MildSample)[4]]
      : z \in LogZips, day \in {Today, Today + 1} }

LogInit ==
  /\ StartupDone
  /\ NewsIdle
  /\ numWorkers = 1
  /\ fileText \in { << <<Digits[d + 1], "|">> \o z >> :
                        d \in 1..2, z \in LogZips }
  /\ provider \in PipelineProviders /\ provider.missing = 0
  /\ metricsFile \in LogFiles
  /\ startFile = metricsFile
  /\ \E e \in LogEvents : topic = [t \in TopicIds |->
                                     IF t = 4 THEN <<e>> ELSE <<>>]
  /\ exited = FALSE
  /\ panicked = ""
  /\ mainPc = "fileWait"
  /\ lineNumber = 1
  /\ line = [i \in LineIds |->
               [pc |-> "done", req |-> parseLine(fileText[i], i).req]]
  /\ closed = [ch \in {"preCoordinateChan", "requestsChan", "metricsChan"}
                 |-> FALSE]
  /\ cancelled = FALSE
  /\ zipWorkers =
       [w \in Workers |->
          [pc |-> "check", req |-> line[1].req, post |-> NoPostRequest,
           cod |-> NilCod]]
  /\ resultWorkers =
       [w \in Workers |->
          [pc |-> "recv", req |-> NoPostRequest, len |-> 0, i |-> 0, j |-> 1]]
  /\ kafkaConsumers =
       [c \in Consumers |->
          IF c[2] = 4
          THEN [pc |-> "read", off |-> 1,
                msg |-> [UnmarshalMessage(topic[4][1].Value) EXCEPT
                           !.Zip = SplitN2(topic[4][1].Key, "-")[1],
                           !.Date = SplitN2(topic[4][1].Key, "-")[2],
                           !.Topic = topics[4]]]
          ELSE [pc |-> "read", off |-> 0, msg |-> ZeroMessage]]
  /\ promWorkers =
       [w \in Workers |->
          [pc |-> "gauge", msg |-> kafkaConsumers[<<w, 4>>].msg, k |-> 1,
           src |-> <<4, 1>>, overlapped |-> FALSE]]
  /\ gauges = <<>>
  /\ mutex = 0
  /\ calls = [i \in LineIds |-> [geo |-> 0, forecast |-> 0]]
  /\ checks = <<>>
  /\ sent = [ch \in {"preCoordinateChan", "requestsChan"} |->
               [i \in LineIds |-> IF ch = "preCoordinateChan" THEN 1 ELSE 0]]
  /\ writes = <<>>
  /\ applied = {}
  /\ lastDone = <<>>

LogNext ==
  \/ \E w \in Workers : ZipCheck(w, TRUE)
  \/ \E w \in Workers : ZipCheck(w, FALSE)
  \/ \E a \in Workers : UpdateGauge(a)
  \/ \E a \in Workers : UpdateLock(a)
  \/ \E a \in Workers : UpdateOpen(a)
  \/ \E a \in Workers : UpdateOpenFail(a)
  \/ \E a \in Workers : UpdateWrite(a)
  \/ \E a \in Workers : UpdateNewline(a)

LogSpec == LogInit /\ [][LogNext]_vars

(***************************************************************************)
(* Properties of the dedup gate and the log.                               *)
(***************************************************************************)
\* Every line of the log, the unterminated last one included.
AllLines(file) ==
  file.lines \o (IF file.tail = <<>> THEN <<>> ELSE <<file.tail>>)

\* The log holds a line that parses to a record for zip and day.
HoldsRecord(file, zip, day) ==
  \E n \in 1..Len(AllLines(file)) :
     /\ LineParses(AllLines(file)[n])
     /\ UnmarshalMessage(AllLines(file)[n][1].obj).Zip = zip
     /\ UnmarshalMessage(AllLines(file)[n][1].obj).Date = FormatDate(day)

\* Worker w leaves isInTSDB in this step.
Looked(w) == zipWorkers[w].pc = "check" /\ zipWorkers'[w].pc # "check"

Appended(zip, day) ==
  \E x \in applied : x.Zip = zip /\ x.Date = FormatDate(day)

\* C7: once updateMetrics has appended a record for an event with key
\* (zip, date), a later lookup that opens the log for a request with that
\* ZIP code and that furthest date reports the request as present.
AppendedRecordIsFound ==
  [][\A w \in Workers :
       (Looked(w) /\ checks'[zipWorkers[w].req.LineNum].opened
                  /\ Appended(zipWorkers[w].req.ZIPCode,
                              Today + zipWorkers[w].req.Days - 1))
         => zipWorkers'[w].pc = "recv"
    ]_vars

\* A run that ended by os.Exit between the two writes of updateMetrics:
\* the log is left with a last line that has no newline.
LogLeftTorn == exited /\ metricsFile.tail # <<>>

(***************************************************************************)
(* The drain of the topics: a run over an empty input file has cancelled   *)
(* the consumer context; one topic holds events of earlier runs, which     *)
(* every consumer of the topic reads from the first offset; some consumers *)
(* have returned already, and those left hand at most MaxDrained messages  *)
(* to the aggregation workers.                                             *)
(***************************************************************************)
EventsOf(t, samples) ==
  { [Key   |-> MessageKey(<<"A">>, FormatDate(Today)),
     Value |-> Payloads("Town", FormatDate(Today), s)[t]]
      : s \in samples }

StaleEvents(t) == EventsOf(t, {MildSample, HotSample})

DrainOf(samples) ==
  /\ StartupDone
  /\ NewsIdle
  /\ numWorkers = 2
  /\ fileText = <<>>
  /\ provider \in PipelineProviders /\ provider.missing = 0
  /\ metricsFile = EmptyFile
  /\ startFile = EmptyFile
  /\ \E t \in TopicIds, n \in Workers :
       /\ \E ms \in SeqsUpTo(EventsOf(t, samples), MaxDrained) :
            /\ ms # <<>>
            /\ n * Len(ms) <= MaxDrained
            /\ topic = [u \in TopicIds |-> IF u = t THEN ms ELSE <<>>]
       /\ kafkaConsumers =
            [c \in Consumers |->
               [pc |-> IF c[2] = t /\ c[1] <= n THEN "read" ELSE "done",
                off |-> 0, msg |-> ZeroMessage]]
  /\ exited = FALSE
  /\ panicked = ""
  /\ mainPc = "kafkaWait"
  /\ lineNumber = 0
  /\ line = <<>>
  /\ closed = [ch \in {"preCoordinateChan", "requestsChan", "metricsChan"}
                 |-> ch # "metricsChan"]
  /\ cancelled = TRUE
  /\ zipWorkers =
       [w \in Workers |->
          [pc |-> "done", req |-> NoPreRequest, post |-> NoPostRequest,
           cod |-> NilCod]]
  /\ resultWorkers =
       [w \in Workers |->
          [pc |-> "done", req |-> NoPostRequest, len |-> 0, i |-> 0, j |-> 1]]
  /\ promWorkers = [w \in Workers |-> IdlePromWorker]
  /\ gauges = <<>>
  /\ mutex = 0
  /\ calls = <<>>
  /\ checks = <<>>
  /\ sent = [ch \in {"preCoordinateChan", "requestsChan"} |-> <<>>]
  /\ writes = <<>>
  /\ applied = {}
  /\ lastDone = <<>>

DrainInit == DrainOf({MildSample, HotSample})

DrainNext ==
  \/ MainKafkaWait
  \/ MainCloseMetrics
  \/ MainPromWait
  \/ \E c \in Consumers : ConsumeRead(c)
  \/ \E c \in Consumers : ConsumeCancelled(c)
  \/ \E c \in Consumers, a \in Workers : ConsumeSend(c, a)
  \/ \E a \in Workers : PromRecvClosed(a)
  \/ \E a \in Workers : UpdateGauge(a)
  \/ \E a \in Workers : UpdateLock(a)
  \/ \E a \in Workers : UpdateOpen(a)
  \/ \E a \in Workers : UpdateOpenFail(a)
  \/ \E a \in Workers : UpdateWrite(a)
  \/ \E a \in Workers : UpdateNewline(a)

DrainSpec == DrainInit /\ [][DrainNext]_vars

(***************************************************************************)
(* Properties of updateMetrics.                                            *)
(***************************************************************************)
\* The value gauges of an event's family and the field each shows.
ValueGauges(msg) ==
  CASE msg.Topic = "temperature" ->
         {<<"temperature", msg.Temperature>>, <<"feelslike", msg.FeelsLike>>}
    [] msg.Topic = "humidity" -> {<<"humidity", msg.Humidity>>}
    [] msg.Topic = "wind" ->
         {<<"wind_speed", msg.WindSpeed>>, <<"wind_degree", msg.WindDegree>>}
    [] msg.Topic = "cloud" -> {<<"cloud_percent", msg.Cloud>>}
    [] OTHER -> {}

GaugesShow(msg) ==
  \A g \in ValueGauges(msg) :
     /\ <<g[1], msg.Zip, msg.Date>> \in DOMAIN gauges
     /\ gauges[<<g[1], msg.Zip, msg.Date>>] = g[2]

Quiet(key) ==
  \A a \in Workers : InUpdate(a) => GaugeKey(promWorkers[a].msg) # key

AlertRules ==
  { [alert |-> "alert_temperature_high", of |-> "temperature",
     above |-> TRUE, limit |-> tempHighDefault],
    [alert |-> "alert_temperature_low", of |-> "temperature",
     above |-> FALSE, limit |-> tempLowDefault],
    [alert |-> "alert_humidity_high", of |-> "humidity",
     above |-> TRUE, limit |-> humidityHighDefault],
    [alert |-> "alert_humidity_low", of |-> "humidity",
     above |-> FALSE, limit |-> humidityLowDefault],
    [alert |-> "alert_wind_high", of |-> "wind_speed",
     above |-> TRUE, limit |-> windHighDefault] }

\* The alert gauge of rule r with labels (zip, date) is 1 iff the value its
\* metric's gauge holds crosses the threshold, and 0 otherwise.
AlertAgrees(r, zip, date) ==
  /\ <<r.of, zip, date>> \in DOMAIN gauges
  /\ LET v == gauges[<<r.of, zip, date>>]
     IN  gauges[<<r.alert, zip, date>>] =
           Alert(IF r.above THEN v > r.limit ELSE v < r.limit)

NoUpdateRunning == \A a \in Workers : ~InUpdate(a)

\* C11: in every state in which no updateMetrics call is in progress, every
\* alert gauge agrees with the value stored in the gauge of its metric for
\* the same (zip, date).
AlertsAgreeWhenQuiet ==
  NoUpdateRunning =>
    \A g \in DOMAIN gauges : \A r \in AlertRules :
       g[1] = r.alert => AlertAgrees(r, g[2], g[3])

\* Worker a processes, alone, the event that the last finished call for the
\* family and key processed, alone as well: the event is processed twice in
\* succession.
Reprocesses(a) ==
  LET me  == promWorkers[a]
      key == GaugeKey(me.msg)
  IN  /\ InUpdate(a)
      /\ ~me.overlapped
      /\ key \in DOMAIN lastDone
      /\ lastDone[key].msg = me.msg
      /\ ~lastDone[key].overlapped
      /\ \A b \in Workers \ {a} :
            InUpdate(b) => GaugeKey(promWorkers[b].msg) # key

\* C12: processing an event a second time in succession changes no gauge:
\* every step of the second updateMetrics call leaves the metrics store as
\* the first call left it.
ReprocessingChangesNothing ==
  [][\A a \in Workers :
       (Reprocesses(a) /\ promWorkers'[a] # promWorkers[a])
         => gauges' = gauges]_vars

\* C12's case: the record of one event was appended twice, by two calls that
\* ran one after the other, and the second call has returned.
SameEventProcessedTwice ==
  /\ Len(metricsFile.lines) = 2
  /\ metricsFile.lines[1] = metricsFile.lines[2]
  /\ NoUpdateRunning
  /\ \E key \in DOMAIN lastDone :
       /\ ~lastDone[key].overlapped
       /\ lastDone[key].msg.Topic = "temperature"
       /\ lastDone[key].msg.Temperature > tempHighDefault

(***************************************************************************)
(* The end of a run over one request: the run started with an empty log    *)
(* and empty topics, its input file is the one line "d|A", processRequest  *)
(* has published the events of the request, the pools have returned and    *)
(* main has called cancel().  Some consumers returned on the cancellation  *)
(* before they read anything; those left read the events of this run and   *)
(* hand at most MaxTailReads of them to the aggregation workers.           *)
(***************************************************************************)
\* The events processRequest writes to topic t for the request req.
Published(req, prov, t) ==
  [n \in 1..Iterations(req.Days, prov) |->
     LET r    == DailyResponse(prov, SampleIndex(n - 1))
         date == FormatDate(SlotDay(r.Time))
     IN  [Key   |-> MessageKey(req.ZIPCode, date),
          Value |-> Payloads("Town", date, r)[t]]]

RunEnd(files) ==
  /\ StartupDone
  /\ NewsIdle
  /\ numWorkers \in 1..2
  /\ fileText \in files
  /\ provider \in PipelineProviders /\ provider.missing = 0
  /\ metricsFile = EmptyFile
  /\ startFile = EmptyFile
  /\ lineNumber = 1
  /\ line = [i \in LineIds |->
               [pc |-> "done", req |-> parseLine(fileText[i], i).req]]
  /\ topic = [t \in TopicIds |-> Published(line[1].req, provider, t)]
  /\ \E T \in {{t} : t \in TopicIds} \cup {TopicIds}, n \in Workers :
       /\ n * Cardinality(T) * line[1].req.Days <= MaxTailReads
       /\ kafkaConsumers =
            [c \in Consumers |->
               [pc |-> IF c[2] \in T /\ c[1] <= n THEN "read" ELSE "done",
                off |-> 0, msg |-> ZeroMessage]]
  /\ exited = FALSE
  /\ panicked = ""
  /\ mainPc = "kafkaWait"
  /\ closed = [ch \in {"preCoordinateChan", "requestsChan", "metricsChan"}
                 |-> ch # "metricsChan"]
  /\ cancelled = TRUE
  /\ zipWorkers =
       [w \in Workers |->
          [pc |-> "done", req |-> NoPreRequest, post |-> NoPostRequest,
           cod |-> NilCod]]
  /\ resultWorkers =
       [w \in Workers |->
          [pc |-> "done", req |-> NoPostRequest, len |-> 0, i |-> 0, j |-> 1]]
  /\ promWorkers = [w \in Workers |-> IdlePromWorker]
  /\ gauges = <<>>
  /\ mutex = 0
  /\ calls = [i \in LineIds |-> [geo |-> 1, forecast |-> 1]]
  /\ checks = [i \in LineIds |-> [opened |-> TRUE, exists |-> FALSE]]
  /\ sent = [ch \in {"preCoordinateChan", "requestsChan"} |->
               [i \in LineIds |-> 1]]
  /\ writes = [id \in {<<1, t, SplitN2(topic[t][n].Key, "-")[2]>> :
                         t \in TopicIds, n \in 1..line[1].req.Days} |-> 1]
  /\ applied = {}
  /\ lastDone = <<>>

TailInit == RunEnd({ << <<Digits[d + 1], "|", "A">> >> : d \in 1..2 })

\* The steps of the drain with the log open for appending.
TailNext ==
  \/ MainKafkaWait
  \/ MainCloseMetrics
  \/ MainPromWait
  \/ \E c \in Consumers : ConsumeRead(c)
  \/ \E c \in Consumers : ConsumeCancelled(c)
  \/ \E c \in Consumers, a \in Workers : ConsumeSend(c, a)
  \/ \E a \in Workers : PromRecvClosed(a)
  \/ \E a \in Workers : UpdateGauge(a)
  \/ \E a \in Workers : UpdateLock(a)
  \/ \E a \in Workers : UpdateOpen(a)
  \/ \E a \in Workers : UpdateWrite(a)
  \/ \E a \in Workers : UpdateNewline(a)

TailSpec == TailInit /\ [][TailNext]_vars

(***************************************************************************)
(* What a run adds to the durable log.                                     *)
(***************************************************************************)
\* The lines the run has added to the log it found.
AddedLines ==
  SubSeq(metricsFile.lines, Len(startFile.lines) + 1, Len(metricsFile.lines))

\* The dates of the events published for the request of line i.
ForecastDates(i) ==
  { FormatDate(SlotDay(DailyResponse(provider, SampleIndex(n)).Time)) :
      n \in 0..(line[i].req.Days - 1) }

\* The added lines that are records of family t for (zip, date).
RecordsOf(t, zip, date) ==
  { n \in 1..Len(AddedLines) :
      /\ LineParses(AddedLines[n])
      /\ LET msg == UnmarshalMessage(AddedLines[n][1].obj)
         IN  msg.Topic = topics[t] /\ msg.Zip = zip /\ msg.Date = date }

\* Every consumer has read every event of its topic.
AllRead == \A c \in Consumers : kafkaConsumers[c].off = Len(topic[c[2]])

OneRecordPerKeyAndFamily ==
  Stopped =>
    \A t \in TopicIds, date \in ForecastDates(1) :
       Cardinality(RecordsOf(t, line[1].req.ZIPCode, date)) <= 1

(***************************************************************************)
(* The stages up to the fetch pool, with one or two workers per pool and   *)
(* up to MaxStageLines input lines: the scan loop, the line goroutines,    *)
(* the resolver workers, the fetch workers and main's shutdown up to       *)
(* resultsWG.Wait().  The consumers and the aggregation workers, which     *)
(* touch none of the state of these stages, take no step.                  *)
(***************************************************************************)
StageLines == { <<"1", "|", "A">>, <<"x", "|", "A">> }

StageInit ==
  /\ numWorkers \in 1..2
  /\ fileText \in SeqsUpTo(StageLines, MaxStageLines)
  /\ provider \in PipelineProviders
  /\ metricsFile = EmptyFile
  /\ topic = [t \in TopicIds |-> <<>>]
  /\ InitWorkers

StageNext ==
  \/ MainScan
  \/ MainScanEnd
  \/ MainFileWait
  \/ MainClosePre
  \/ MainZipWait
  \/ MainCloseRequests
  \/ MainResultsWait
  \/ \E i \in LineIds : LineParse(i)
  \/ \E i \in LineIds, w \in Workers : LineSend(i, w)
  \/ \E w \in Workers : ZipRecvClosed(w)
  \/ \E w \in Workers : ZipCheck(w, TRUE)
  \/ \E w \in Workers : ZipGeocodeOk(w)
  \/ \E w \in Workers : ZipGeocodeNotFound(w)
  \/ \E w \in Workers : ZipGeocodeFatal(w)
  \/ \E w \in Workers, v \in Workers : ZipSend(w, v)
  \/ \E v \in Workers : ResultsRecvClosed(v)
  \/ \E v \in Workers : ProcessRequestCall(v)
  \/ \E v \in Workers : ProcessRequestFatal(v)
  \/ \E v \in Workers : WriteMessages(v, TRUE)

StageSpec == StageInit /\ [][StageNext]_vars

(***************************************************************************)
(* Hand-off between the stages.                                            *)
(***************************************************************************)
\* Resolver worker w holds the request of line i.
ResolverHolds(w, i) ==
  /\ zipWorkers[w].pc \in {"check", "geocode", "send"}
  /\ zipWorkers[w].req.LineNum = i

\* Fetch worker v holds the resolved location of line i.
FetchHolds(v, i) ==
  /\ resultWorkers[v].pc \in {"call", "publish"}
  /\ resultWorkers[v].req.LineNum = i

HandOffInv ==
  \A i \in LineIds :
     /\ sent["preCoordinateChan"][i] <= 1
     /\ sent["requestsChan"][i] <= sent["preCoordinateChan"][i]
     /\ calls[i].forecast <= sent["requestsChan"][i]
     /\ Cardinality({w \in Workers : ResolverHolds(w, i)}) <= 1
     /\ Cardinality({v \in Workers : FetchHolds(v, i)}) <= 1

\* A send on preCoordinateChan hands the request to one resolver worker and
\* changes no other; a resolver worker gets a request by such a send only.
PreHandOff(i) ==
  LET got == {w \in Workers : ~ResolverHolds(w, i) /\ ResolverHolds(w, i)'}
  IN  IF sent'["preCoordinateChan"][i] = sent["preCoordinateChan"][i] + 1
      THEN /\ Cardinality(got) = 1
           /\ \A w \in got : zipWorkers'[w].req = line[i].req
           /\ \A w \in Workers \ got : zipWorkers'[w] = zipWorkers[w]
      ELSE got = {}

\* The same for requestsChan and the fetch workers.
PostHandOff(i) ==
  LET got == {v \in Workers : ~FetchHolds(v, i) /\ FetchHolds(v, i)'}
  IN  IF sent'["requestsChan"][i] = sent["requestsChan"][i] + 1
      THEN /\ Cardinality(got) = 1
           /\ \A v \in got :
                 \E w \in Workers :
                    /\ zipWorkers[w].pc = "send"
                    /\ resultWorkers'[v].req = zipWorkers[w].post
           /\ \A v \in Workers \ got : resultWorkers'[v] = resultWorkers[v]
      ELSE got = {}

\* C15: every request sent on preCoordinateChan is received by exactly one
\* resolver worker, every resolved location sent on requestsChan is received
\* by exactly one fetch worker, and the forecast provider is called at most
\* once per resolved request.
HandOffToExactlyOne ==
  /\ []HandOffInv
  /\ [][\A i \in LineIds : PreHandOff(i) /\ PostHandOff(i)]_vars

\* C15's case: with two workers per pool, the requests of two lines were
\* handed to the fetch stage and fetched by different workers.
TwoRequestsHandedOff ==
  /\ numWorkers = 2
  /\ Len(fileText) = 2
  /\ \A i \in LineIds :
        sent["requestsChan"][i] = 1 /\ calls[i].forecast = 1
  /\ resultWorkers[1].req.LineNum # resultWorkers[2].req.LineNum
  /\ mainPc = "cancel"

(***************************************************************************)
(* Backpressure.                                                           *)
(***************************************************************************)
\* The requests the resolver stage holds, the locations the fetch stage
\* holds.
InResolverStage == {i \in LineIds : \E w \in Workers : ResolverHolds(w, i)}

InFetchStage == {i \in LineIds : \E v \in Workers : FetchHolds(v, i)}

\* Nothing sits in a channel: a request that was sent is with a resolver
\* worker or was looked up already; a location that was sent is with a fetch
\* worker or was fetched already.
NothingBuffered ==
  \A i \in LineIds :
     /\ sent["preCoordinateChan"][i] = 1
          => (i \in InResolverStage \/ i \in DOMAIN checks)
     /\ sent["requestsChan"][i] = 1
          => (i \in InFetchStage \/ calls[i].forecast = 1)

\* A resolver worker at its send stays there until a fetch worker that was
\* waiting at requestsChan has received the location.
ResolverWaitsForFetch(w) ==
  zipWorkers[w].pc = "send" =>
    \/ zipWorkers'[w] = zipWorkers[w]
    \/ /\ zipWorkers'[w].pc = "recv"
       /\ \E v \in Workers :
             /\ resultWorkers[v].pc = "recv"
             /\ resultWorkers'[v].pc = "call"
             /\ resultWorkers'[v].req = zipWorkers[w].post

\* C16: with numWorkers workers per pool, the resolver stage holds at most
\* numWorkers requests and the fetch stage at most numWorkers locations; the
\* channels buffer nothing; a resolver worker that has resolved a location
\* takes no further request until a fetch worker has received that location.
StagesHoldAtMostW ==
  /\ [](/\ Cardinality(InResolverStage) <= numWorkers
        /\ Cardinality(InFetchStage) <= numWorkers
        /\ NothingBuffered)
  /\ [][\A w \in Workers : ResolverWaitsForFetch(w)]_vars

\* C16's case: with one worker per pool the resolver worker has resolved the
\* location of the second line and waits at its send while the fetch worker
\* publishes the events of the first.
ResolverBlockedOnBusyFetch ==
  /\ numWorkers = 1
  /\ zipWorkers[1].pc = "send" /\ zipWorkers[1].post.LineNum = 2
  /\ resultWorkers[1].pc = "publish" /\ resultWorkers[1].req.LineNum = 1

(***************************************************************************)
(* A location the geocoding provider does not find.                        *)
(***************************************************************************)
\* convertToCoordinates returns false to worker w in this step.
NotFoundReturned(w) ==
  zipWorkers[w].pc = "geocode" /\ zipWorkers'[w].pc = "recv"

\* The request of line i was geocoded and dropped: no resolver worker holds
\* it and it was not sent on.
Dropped(i) ==
  /\ calls[i].geo >= 1
  /\ ~\E w \in Workers : ResolverHolds(w, i)
  /\ sent["requestsChan"][i] = 0

\* C20: when the geocoding provider reports not-found, the request is
\* dropped: nothing is sent on requestsChan for it then or later, the
\* provider was called once for it and is not called for it again, nothing
\* is fetched or published for it, and the worker is back at the receive of
\* its loop.
NotFoundIsDropped ==
  /\ [](\A i \in LineIds : calls[i].geo <= 1)
  /\ [][\A w \in Workers :
          NotFoundReturned(w) =>
            LET i == zipWorkers[w].req.LineNum
            IN  /\ Dropped(i)'
                /\ calls'[i].geo = 1
                /\ sent' = sent
                /\ resultWorkers' = resultWorkers]_vars
  /\ [][\A i \in LineIds :
          Dropped(i) =>
            /\ Dropped(i)'
            /\ calls'[i] = calls[i]
            /\ calls[i].forecast = 0
            /\ \A id \in DOMAIN writes' : id[1] # i]_vars

\* C20's case: the one resolver worker dropped the request of the first
\* line, took the request of the second and sent its location on.
DroppedThenNextTaken ==
  /\ numWorkers = 1
  /\ Len(fileText) = 2
  /\ Dropped(1)
  /\ zipWorkers[1].req.LineNum = 2
  /\ sent["requestsChan"][2] = 1

(***************************************************************************)
(* Cancellation of the consumers.                                          *)
(***************************************************************************)
\* C17: after cancel() every broker consumer eventually returns, whether it
\* was waiting in ReadMessage or at its send on metricsChan when the context
\* was cancelled.
CancelledConsumersExit == cancelled ~> AllDone(kafkaConsumers)

\* C17's case: the context is cancelled while one consumer waits at its send
\* on metricsChan and another in ReadMessage; a third has returned already.
CancelledWhileHandingOver ==
  /\ cancelled
  /\ mainPc = "kafkaWait"
  /\ \E c \in Consumers : kafkaConsumers[c].pc = "send"
  /\ \E c \in Consumers : kafkaConsumers[c].pc = "read"
  /\ \E c \in Consumers : kafkaConsumers[c].pc = "done"

(***************************************************************************)
(* The append section of updateMetrics.                                    *)
(***************************************************************************)
\* The workers between metricsFileMutex.Lock() and the deferred Unlock().
InAppend == {a \in Workers : promWorkers[a].pc \in {"open", "write", "newline"}}

\* One worker at most is in the append section and it holds the mutex; the
\* unterminated end of the log is the record of the worker that is between
\* its two writes (behind what the run found unterminated, for the first
\* append); every line the run has completed after its first is one whole
\* record.
AppendExclusive ==
  /\ Cardinality(InAppend) <= 1
  /\ \A a \in InAppend : mutex = a
  /\ InAppend = {} => mutex = 0
  /\ IF \E a \in Workers : promWorkers[a].pc = "newline"
     THEN \A a \in Workers :
             promWorkers[a].pc = "newline" =>
               metricsFile.tail =
                 (IF metricsFile.lines = startFile.lines
                  THEN startFile.tail ELSE <<>>)
                 \o <<JsonChunk(MarshalMessage(promWorkers[a].msg))>>
     ELSE metricsFile.tail =
            (IF metricsFile.lines = startFile.lines
             THEN startFile.tail ELSE <<>>)
  /\ \A n \in (Len(startFile.lines) + 2)..Len(metricsFile.lines) :
        LineParses(metricsFile.lines[n])

\* Every line of the log stays where it is and as it is; the unterminated
\* end only gets longer or becomes a line.
LogOnlyGrows ==
  /\ Len(metricsFile'.lines) >= Len(metricsFile.lines)
  /\ SubSeq(metricsFile'.lines, 1, Len(metricsFile.lines)) = metricsFile.lines
  /\ \/ /\ metricsFile'.lines = metricsFile.lines
        /\ Len(metricsFile'.tail) >= Len(metricsFile.tail)
        /\ SubSeq(metricsFile'.tail, 1, Len(metricsFile.tail))
             = metricsFile.tail
     \/ /\ metricsFile'.lines = Append(metricsFile.lines, metricsFile.tail)
        /\ metricsFile'.tail = <<>>

\* C18: at most one aggregation worker at a time is in the append section of
\* updateMetrics, the records of concurrent workers are not interleaved
\* within a line, and the log only grows: what it holds stays, unchanged and
\* in the same position.
AppendsAreExclusiveAndKept == []AppendExclusive /\ [][LogOnlyGrows]_vars

\* C18's case: one worker is between its two writes while the other waits
\* for the mutex, and the log holds a record already.
WorkerWaitsForAppend ==
  /\ numWorkers = 2
  /\ \E a, b \in Workers :
        /\ promWorkers[a].pc = "newline" /\ promWorkers[b].pc = "lock"
        /\ promWorkers[a].msg # promWorkers[b].msg

(***************************************************************************)
(* Runs over two lines of which one fails validation: a line that is not   *)
(* two fields, or whose day count is no number or not positive, naming     *)
(* location B, before or after the request "1|A".  One worker per pool,    *)
(* empty log, empty topics.                                                *)
(***************************************************************************)
InvalidLines ==
  { <<"x", "|", "B">>, <<"0", "|", "B">>, <<"1", "|", "2", "|", "B">> }

SkipInit ==
  /\ numWorkers = 1
  /\ fileText \in { <<bad, <<"1", "|", "A">>>> : bad \in InvalidLines }
                   \cup { <<<<"1", "|", "A">>, <<"x", "|", "B">>>> }
  /\ provider \in PipelineProviders /\ provider.missing = 0
  /\ metricsFile = EmptyFile
  /\ topic = [t \in TopicIds |-> <<>>]
  /\ InitWorkers

SkipSpec == SkipInit /\ [][Next]_vars

\* The lines of the input that fail validation, and the others.
Invalid == {i \in LineIds : ~parseLine(fileText[i], i).success}

ValidZips == {parseLine(fileText[i], i).req.ZIPCode : i \in LineIds \ Invalid}

\* C19: a line that fails validation in parseLine is not sent on
\* preCoordinateChan and causes no dedup lookup, no provider call, no
\* publication, no gauge update and no log append; the other lines are
\* processed: the run does not stop before each of them was sent and looked
\* up.
InvalidLineHasNoEffect ==
  /\ \A i \in Invalid :
        /\ line[i].pc \in {"none", "run", "done"}
        /\ sent["preCoordinateChan"][i] = 0
        /\ sent["requestsChan"][i] = 0
        /\ i \notin DOMAIN checks
        /\ calls[i] = [geo |-> 0, forecast |-> 0]
        /\ \A id \in DOMAIN writes : id[1] # i
  /\ \A t \in TopicIds : \A n \in 1..Len(topic[t]) :
        SplitN2(topic[t][n].Key, "-")[1] \in ValidZips
  /\ \A g \in DOMAIN gauges : g[2] \in ValidZips
  /\ \A n \in 1..Len(AllLines(metricsFile)) :
        /\ LineParses(AllLines(metricsFile)[n])
        /\ UnmarshalMessage(AllLines(metricsFile)[n][1].obj).Zip \in ValidZips
  /\ Stopped =>
       \A i \in LineIds \ Invalid :
          sent["preCoordinateChan"][i] = 1 /\ i \in DOMAIN checks

\* C19's case: the first line failed validation, the second was fetched and
\* published, its events were applied, and the run has stopped.
SkippedLineThenRequestDone ==
  /\ Stopped
  /\ 1 \in Invalid
  /\ calls[2].forecast = 1
  /\ Len(metricsFile.lines) = Len(topics)
  /\ gauges # <<>>

(***************************************************************************)
(* Provider failures.                                                      *)
(***************************************************************************)
\* The stages up to the fetch pool with one worker per pool and every answer
\* of the providers: found, not found, invalid credential, no answer.
ProviderInit == StageInit /\ numWorkers = 1

ProviderNext ==
  \/ StageNext
  \/ \E w \in Workers : ZipGeocodeUnauthorized(w)

ProviderSpec == ProviderInit /\ [][ProviderNext]_vars

\* Resolver worker w has decoded the invalid-credential answer.
AnsweredUnauthorized(w) == zipWorkers[w].cod = DecodeAny(UnauthorizedBody.cod)

ForecastFailedFor(i) ==
  /\ calls[i].forecast >= 1
  /\ \E v \in Workers :
        resultWorkers[v].pc = "call" /\ resultWorkers[v].req.LineNum = i

\* C22: if the forecast call of a request fails, the process has ended
\* (no goroutine takes a step after os.Exit), the call was made once, and no
\* event of the request was published.
ForecastFailureEndsProcess ==
  /\ [](\A i \in LineIds :
          ForecastFailedFor(i) =>
            /\ exited
            /\ calls[i].forecast = 1
            /\ \A id \in DOMAIN writes : id[1] # i)
  /\ [][~exited]_vars

\* C22's case: with two workers per pool the forecast call of one request
\* failed while the other fetch worker was publishing the events of another.
ForecastFailedWhileOtherPublishes ==
  /\ numWorkers = 2
  /\ \E i \in LineIds : ForecastFailedFor(i)
  /\ \E v \in Workers : resultWorkers[v].pc = "publish"
  /\ exited

(***************************************************************************)
(* Storage failures.                                                       *)
(***************************************************************************)
\* os.OpenFile fails for worker a in this step: updateMetrics returns from
\* its open without reaching the writes.
OpenFailed(a) == promWorkers[a].pc = "open" /\ promWorkers'[a].pc = "recv"

\* C23: if the log cannot be opened for appending, updateMetrics has made
\* every gauge update of the event and keeps them, leaves the log unchanged,
\* releases the mutex, and the worker is back at the receive of its loop;
\* the process goes on.
OpenFailureIsSkipped ==
  [][\A a \in Workers :
       OpenFailed(a) =>
         /\ promWorkers[a].k = Len(GaugeOps(promWorkers[a].msg)) + 1
         /\ gauges' = gauges
         /\ metricsFile' = metricsFile
         /\ mutex = a /\ mutex' = 0
         /\ ~exited' /\ panicked' = ""
         /\ \A b \in Workers \ {a} : promWorkers'[b] = promWorkers[b]]_vars

\* C23's case: of two events handed to the aggregation workers one was
\* appended and the other met a log that could not be opened; the gauges of
\* the family are set and the run has stopped.
StoppedAfterOpenFailure ==
  /\ Stopped
  /\ Len(metricsFile.lines) = 1
  /\ \E t \in TopicIds :
        /\ Len(topic[t]) = 2
        /\ \E c \in Consumers : c[2] = t /\ kafkaConsumers[c].off = 2
  /\ gauges # <<>>

(***************************************************************************)
(* Startup: main from initKafkaWriters to the launch of the pools, then    *)
(* the pipeline of one request.  The services may answer from the start,   *)
(* begin to answer at any moment, or never answer.                         *)
(***************************************************************************)
Services == {"kafka", "grafana"}

\* The environment: service s begins to answer.
ServiceComesUp(s) ==
  /\ Running /\ ~reachable[s]
  /\ reachable' = [reachable EXCEPT ![s] = TRUE]
  /\ UNCHANGED <<numWorkers, exited, panicked, fileText, provider, mainPc,
                 lineNumber, line, closed, cancelled, zipWorkers,
                 resultWorkers, topic, kafkaConsumers, promWorkers, gauges,
                 mutex, metricsFile, startFile, calls, checks, sent, writes,
                 applied, lastDone, elapsed, ensured, brokerTopics, db,
                 rowLimit, cache, queryMutexes, locked, searchWorkers,
                 writeWorkers, served, apiCalls>>

\* waitForKafka: kafka.Dial fails, the loop sleeps retryDelay and dials again.
WaitForKafkaRetry ==
  /\ Running /\ mainPc = "waitForKafka"
  /\ ~reachable.kafka
  /\ elapsed < MaxKafkaWait
  /\ elapsed' = elapsed + retryDelay
  /\ UNCHANGED <<numWorkers, exited, panicked, fileText, provider, mainPc,
                 lineNumber, line, closed, cancelled, zipWorkers,
                 resultWorkers, topic, kafkaConsumers, promWorkers, gauges,
                 mutex, metricsFile, startFile, calls, checks, sent, writes,
                 applied, lastDone, reachable, ensured, brokerTopics, db,
                 rowLimit, cache, queryMutexes, locked, searchWorkers,
                 writeWorkers, served, apiCalls>>

\* waitForKafka: kafka.Dial succeeds, initKafkaWriters builds the writers and
\* main enters its loop over topics.
WaitForKafkaReturns ==
  /\ Running /\ mainPc = "waitForKafka"
  /\ reachable.kafka
  /\ mainPc' = "ensureKafkaTopic"
  /\ elapsed' = 0
  /\ UNCHANGED <<numWorkers, exited, panicked, fileText, provider,
                 lineNumber, line, closed, cancelled, zipWorkers,
                 resultWorkers, topic, kafkaConsumers, promWorkers, gauges,
                 mutex, metricsFile, startFile, calls, checks, sent, writes,
                 applied, lastDone, reachable, ensured, brokerTopics, db,
                 rowLimit, cache, queryMutexes, locked, searchWorkers,
                 writeWorkers, served, apiCalls>>

\* A faulty ensureKafkaTopic: the topic is created without a look at the
\* partitions the broker holds for it.
ensureKafkaTopicAlwaysCreates(b, t, fails) ==
  IF fails # "none" THEN [exit |-> TRUE, topics |-> b]
  ELSE [exit |-> FALSE, topics |-> Put(b, t, 1)]

\* ensureKafkaTopic(t) on a broker with the topics b.  fails names the call
\* to the broker that returns an error: "dial" (kafka.Dial), "create"
\* (Controller, the dial of the controller, CreateTopics), or "none".
\* ReadPartitions returns partitions exactly for a topic the broker holds.
ensureKafkaTopic(b, t, fails) ==
  IF fails = "dial" THEN [exit |-> TRUE, topics |-> b]
  ELSE IF t \in DOMAIN b /\ b[t] > 0 THEN [exit |-> FALSE, topics |-> b]
  ELSE IF fails = "create" THEN [exit |-> TRUE, topics |-> b]
  ELSE [exit |-> FALSE, topics |-> Put(b, t, 1)]

\* One iteration of main's loop over topics.
MainEnsureTopic(fails) ==
  /\ Running /\ mainPc = "ensureKafkaTopic" /\ ensured < Len(topics)
  /\ LET r == ensureKafkaTopic(brokerTopics, topics[ensured + 1], fails)
     IN  /\ exited' = r.exit
         /\ brokerTopics' = r.topics
         /\ ensured' = IF r.exit THEN ensured ELSE ensured + 1
  /\ UNCHANGED <<numWorkers, panicked, fileText, provider, mainPc,
                 lineNumber, line, closed, cancelled, zipWorkers,
                 resultWorkers, topic, kafkaConsumers, promWorkers, gauges,
                 mutex, metricsFile, startFile, calls, checks, sent, writes,
                 applied, lastDone, reachable, elapsed, db, rowLimit, cache,
                 queryMutexes, locked, searchWorkers, writeWorkers, served,
                 apiCalls>>

\* The loop over topics is over: main calls waitForGrafana(60 * time.Second).
MainTopicsEnsured ==
  /\ Running /\ mainPc = "ensureKafkaTopic" /\ ensured = Len(topics)
  /\ mainPc' = "waitForGrafana"
  /\ UNCHANGED <<numWorkers, exited, panicked, fileText, provider,
                 lineNumber, line, closed, cancelled, zipWorkers,
                 resultWorkers, topic, kafkaConsumers, promWorkers, gauges,
                 mutex, metricsFile, startFile, calls, checks, sent, writes,
                 applied, lastDone, reachable, elapsed, ensured,
                 brokerTopics, db, rowLimit, cache, queryMutexes, locked,
                 searchWorkers, writeWorkers, served, apiCalls>>

\* waitForGrafana: the request fails or is answered with another status and
\* the deadline has not passed: the loop sleeps and asks again.
WaitForGrafanaRetry ==
  /\ Running /\ mainPc = "waitForGrafana"
  /\ ~reachable.grafana
  /\ ~(elapsed > grafanaTimeout)
  /\ elapsed' = elapsed + retryDelay
  /\ UNCHANGED <<numWorkers, exited, panicked, fileText, provider, mainPc,
                 lineNumber, line, closed, cancelled, zipWorkers,
                 resultWorkers, topic, kafkaConsumers, promWorkers, gauges,
                 mutex, metricsFile, startFile, calls, checks, sent, writes,
                 applied, lastDone, reachable, ensured, brokerTopics, db,
                 rowLimit, cache, queryMutexes, locked, searchWorkers,
                 writeWorkers, served, apiCalls>>

\* waitForGrafana: the deadline has passed; it returns the error and
\* check(err) ends the process.
WaitForGrafanaTimeout ==
  /\ Running /\ mainPc = "waitForGrafana"
  /\ ~reachable.grafana
  /\ elapsed > grafanaTimeout
  /\ exited' = TRUE
  /\ UNCHANGED <<numWorkers, panicked, fileText, provider, mainPc,
                 lineNumber, line, closed, cancelled, zipWorkers,
                 resultWorkers, topic, kafkaConsumers, promWorkers, gauges,
                 mutex, metricsFile, startFile, calls, checks, sent, writes,
                 applied, lastDone, reachable, elapsed, ensured,
                 brokerTopics, db, rowLimit, cache, queryMutexes, locked,
                 searchWorkers, writeWorkers, served, apiCalls>>

\* waitForGrafana: status 200 or 401; it returns nil.
WaitForGrafanaReturns ==
  /\ Running /\ mainPc = "waitForGrafana"
  /\ reachable.grafana
  /\ mainPc' = "launchConsumers"
  /\ elapsed' = 0
  /\ UNCHANGED <<numWorkers, exited, panicked, fileText, provider,
                 lineNumber, line, closed, cancelled, zipWorkers,
                 resultWorkers, topic, kafkaConsumers, promWorkers, gauges,
                 mutex, metricsFile, startFile, calls, checks, sent, writes,
                 applied, lastDone, reachable, ensured, brokerTopics, db,
                 rowLimit, cache, queryMutexes, locked, searchWorkers,
                 writeWorkers, served, apiCalls>>

\* No goroutine of the pool has been started.
NotLaunched(pool) == \A w \in DOMAIN pool : pool[w].pc = "none"

\* kafkaWG.Go(...) for every worker and topic.
LaunchConsumers ==
  /\ Running /\ mainPc = "launchConsumers"
  /\ kafkaConsumers' =
       [c \in Consumers |-> [pc |-> "read", off |-> 0, msg |-> ZeroMessage]]
  /\ mainPc' = "launchPromWorkers"
  /\ UNCHANGED <<numWorkers, exited, panicked, fileText, provider,
                 lineNumber, line, closed, cancelled, zipWorkers,
                 resultWorkers, topic, promWorkers, gauges, mutex,
                 metricsFile, startFile, calls, checks, sent, writes,
                 applied, lastDone, reachable, elapsed, ensured,
                 brokerTopics, db, rowLimit, cache, queryMutexes, locked,
                 searchWorkers, writeWorkers, served, apiCalls>>

\* promWG.Go(...) for every worker.
LaunchPromWorkers ==
  /\ Running /\ mainPc = "launchPromWorkers"
  /\ promWorkers' = [w \in Workers |-> IdlePromWorker]
  /\ mainPc' = "launchZipWorkers"
  /\ UNCHANGED <<numWorkers, exited, panicked, fileText, provider,
                 lineNumber, line, closed, cancelled, zipWorkers,
                 resultWorkers, topic, kafkaConsumers, gauges, mutex,
                 metricsFile, startFile, calls, checks, sent, writes,
                 applied, lastDone, reachable, elapsed, ensured,
                 brokerTopics, db, rowLimit, cache, queryMutexes, locked,
                 searchWorkers, writeWorkers, served, apiCalls>>

\* A faulty LaunchZipWorkers: the resolver pool may be launched before the
\* consumers.
LaunchZipWorkersEarly ==
  /\ Running /\ mainPc \in {"launchConsumers", "launchZipWorkers"}
  /\ mainPc = "launchConsumers" => NotLaunched(zipWorkers)
  /\ zipWorkers' =
       [w \in Workers |->
          [pc |-> "recv", req |-> NoPreRequest, post |-> NoPostRequest,
           cod |-> NilCod]]
  /\ mainPc' = IF mainPc = "launchZipWorkers" THEN "launchResultWorkers"
               ELSE mainPc
  /\ UNCHANGED <<numWorkers, exited, panicked, fileText, provider,
                 lineNumber, line, closed, cancelled, resultWorkers, topic,
                 kafkaConsumers, promWorkers, gauges, mutex, metricsFile,
                 startFile, calls, checks, sent, writes, applied, lastDone,
                 reachable, elapsed, ensured, brokerTopics, db, rowLimit,
                 cache, queryMutexes, locked, searchWorkers, writeWorkers,
                 served, apiCalls>>

\* The channels are made; zipCodeWG.Go(...) for every worker.
LaunchZipWorkers ==
  /\ Running /\ mainPc = "launchZipWorkers"
  /\ zipWorkers' =
       [w \in Workers |->
          [pc |-> "recv", req |-> NoPreRequest, post |-> NoPostRequest,
           cod |-> NilCod]]
  /\ mainPc' = "launchResultWorkers"
  /\ UNCHANGED <<numWorkers, exited, panicked, fileText, provider,
                 lineNumber, line, closed, cancelled, resultWorkers, topic,
                 kafkaConsumers, promWorkers, gauges, mutex, metricsFile,
                 startFile, calls, checks, sent, writes, applied, lastDone,
                 reachable, elapsed, ensured, brokerTopics, db, rowLimit,
                 cache, queryMutexes, locked, searchWorkers, writeWorkers,
                 served, apiCalls>>

\* resultsWG.Go(...) for every worker; main opens the file and scans.
LaunchResultWorkers ==
  /\ Running /\ mainPc = "launchResultWorkers"
  /\ resultWorkers' =
       [w \in Workers |->
          [pc |-> "recv", req |-> NoPostRequest, len |-> 0, i |-> 0, j |-> 1]]
  /\ mainPc' = "scan"
  /\ UNCHANGED <<numWorkers, exited, panicked, fileText, provider,
                 lineNumber, line, closed, cancelled, zipWorkers, topic,
                 kafkaConsumers, promWorkers, gauges, mutex, metricsFile,
                 startFile, calls, checks, sent, writes, applied, lastDone,
                 reachable, elapsed, ensured, brokerTopics, db, rowLimit,
                 cache, queryMutexes, locked, searchWorkers, writeWorkers,
                 served, apiCalls>>

\* What the broker may hold when the program starts.
StartTopics ==
  { <<>>, [t \in {"temperature"} |-> 2],
    [t \in {topics[i] : i \in TopicIds} |-> 1] }

StartInit ==
  /\ NewsIdle
  /\ numWorkers = 1
  /\ fileText = << <<"1", "|", "A">> >>
  /\ provider \in PipelineProviders /\ provider.missing = 0
  /\ metricsFile = EmptyFile
  /\ topic = [t \in TopicIds |-> <<>>]
  /\ reachable \in [Services -> BOOLEAN]
  /\ elapsed = 0
  /\ ensured = 0
  /\ brokerTopics \in StartTopics
  /\ exited = FALSE
  /\ panicked = ""
  /\ mainPc = "waitForKafka"
  /\ lineNumber = 0
  /\ line = [i \in LineIds |-> [pc |-> "none", req |-> NoPreRequest]]
  /\ closed = [ch \in {"preCoordinateChan", "requestsChan", "metricsChan"}
                 |-> FALSE]
  /\ cancelled = FALSE
  /\ zipWorkers =
       [w \in Workers |->
          [pc |-> "none", req |-> NoPreRequest, post |-> NoPostRequest,
           cod |-> NilCod]]
  /\ resultWorkers =
       [w \in Workers |->
          [pc |-> "none", req |-> NoPostRequest, len |-> 0, i |-> 0, j |-> 1]]
  /\ kafkaConsumers =
       [c \in Consumers |-> [pc |-> "none", off |-> 0, msg |-> ZeroMessage]]
  /\ promWorkers = [w \in Workers |-> [IdlePromWorker EXCEPT !.pc = "none"]]
  /\ gauges = <<>>
  /\ mutex = 0
  /\ startFile = metricsFile
  /\ calls = [i \in LineIds |-> [geo |-> 0, forecast |-> 0]]
  /\ checks = <<>>
  /\ sent = [ch \in {"preCoordinateChan", "requestsChan"} |->
               [i \in LineIds |-> 0]]
  /\ writes = <<>>
  /\ applied = {}
  /\ lastDone = <<>>

Startup ==
  \/ \E s \in Services : ServiceComesUp(s)
  \/ WaitForKafkaRetry
  \/ WaitForKafkaReturns
  \/ \E fails \in {"none", "dial", "create"} : MainEnsureTopic(fails)
  \/ MainTopicsEnsured
  \/ WaitForGrafanaRetry
  \/ WaitForGrafanaTimeout
  \/ WaitForGrafanaReturns
  \/ LaunchConsumers
  \/ LaunchPromWorkers
  \/ LaunchZipWorkers
  \/ LaunchResultWorkers

StartNext == Startup \/ Next

StartSpec == StartInit /\ [][StartNext]_vars

\* main is in one of its wait loops.
Waiting == mainPc \in {"waitForKafka", "waitForGrafana"}

SomeLaunched ==
  \/ ~NotLaunched(kafkaConsumers) \/ ~NotLaunched(promWorkers)
  \/ ~NotLaunched(zipWorkers) \/ ~NotLaunched(resultWorkers)

\* C24: startup waits for the broker and for the dashboard service under a
\* deadline: no wait loop is still retrying once more than grafanaTimeout
\* seconds (and one more sleep) have passed in it, and no worker of any
\* pool is launched unless both services have answered.
StartupWaitsUnderDeadline ==
  /\ Waiting => elapsed <= grafanaTimeout + retryDelay
  /\ SomeLaunched => (reachable.kafka /\ reachable.grafana)

(***************************************************************************)
(* Publication.                                                            *)
(***************************************************************************)
\* The event id = <<line, family, date>> is on its topic.
OnTopic(id) ==
  \E k \in 1..Len(topic[id[2]]) :
     topic[id[2]][k].Key =
       MessageKey(parseLine(fileText[id[1]], id[1]).req.ZIPCode, id[3])

\* C25: every event a fetch worker has tried to publish (its WriteMessages
\* call has returned) is on its topic at least once, also when the broker
\* refused a write.
AttemptedEventsAreDelivered == \A id \in DOMAIN writes : OnTopic(id)

(***************************************************************************)
(* Consumers and producers.                                                *)
(***************************************************************************)
\* The message consumer c holds is the event at position k of its topic.
Holds(c, k) ==
  LET m == topic[c[2]][k]
  IN  /\ kafkaConsumers[c].msg.Topic = topics[c[2]]
      /\ <<kafkaConsumers[c].msg.Zip, kafkaConsumers[c].msg.Date>>
           = SplitN2(m.Key, "-")

\* Consumer c has not begun to read and an event is on its topic already.
PublishedBeforeRead(c) ==
  /\ kafkaConsumers[c].pc = "read" /\ kafkaConsumers[c].off = 0
  /\ Len(topic[c[2]]) >= 1

\* C26: the consumers are launched before any resolver or fetch worker, a
\* launched consumer starts at the first offset of its topic and takes the
\* events one by one in the order of the topic, and as long as the process
\* runs and the context is not cancelled a consumer that waits to read can
\* read every event that is on its topic beyond its offset, whenever it
\* was published.
ConsumersFirstFromEarliest ==
  /\ []((~NotLaunched(zipWorkers) \/ ~NotLaunched(resultWorkers))
           => ~NotLaunched(kafkaConsumers))
  /\ [](\A c \in Consumers :
          /\ kafkaConsumers[c].off <= Len(topic[c[2]])
          /\ kafkaConsumers[c].pc = "send" => Holds(c, kafkaConsumers[c].off)
          /\ (Running /\ ~cancelled /\ kafkaConsumers[c].pc = "read"
                /\ kafkaConsumers[c].off < Len(topic[c[2]]))
               => ENABLED ConsumeRead(c))
  /\ [][\A c \in Consumers :
          /\ kafkaConsumers[c].pc = "none" /\ kafkaConsumers'[c].pc # "none"
               => kafkaConsumers'[c].off = 0
          /\ kafkaConsumers'[c].off # kafkaConsumers[c].off
               => /\ kafkaConsumers'[c].off = kafkaConsumers[c].off + 1
                  /\ kafkaConsumers'[c].pc = "send"]_vars

\* C26's case: an event was on the topic of a consumer before the consumer
\* read for the first time, and the consumer has read it since and hands
\* it to the aggregation workers; the context is not cancelled.
ReadWhatWasPublishedBefore ==
  /\ ~cancelled
  /\ \E c \in Consumers :
        /\ kafkaConsumers[c].pc = "send" /\ kafkaConsumers[c].off = 1
        /\ Holds(c, 1)
        /\ \E d \in Consumers : d # c /\ PublishedBeforeRead(d)

(***************************************************************************)
(* Topic provisioning.                                                     *)
(***************************************************************************)
\* b and c hold the same topics with the same partitions, but for topic t,
\* which c holds.
SameBut(b, c, t) ==
  /\ DOMAIN c = DOMAIN b \cup {t}
  /\ \A u \in DOMAIN b : c[u] = b[u]

\* C27: on every broker state of a run and for every topic of topics, a
\* call of ensureKafkaTopic that meets no error returns, leaves an existing
\* topic and every other topic as they are, adds exactly the topic when it
\* is absent, and a second call changes nothing more; the calls main makes
\* change the broker in this way, and a call that ends the process leaves
\* the broker as it was.
EnsureTopicIsIdempotent ==
  /\ [](\A i \in TopicIds :
          LET once == ensureKafkaTopic(brokerTopics, topics[i], "none")
          IN  /\ ~once.exit
              /\ SameBut(brokerTopics, once.topics, topics[i])
              /\ ensureKafkaTopic(once.topics, topics[i], "none") = once)
  /\ [][(mainPc = "ensureKafkaTopic" /\ ensured < Len(topics))
          => /\ ensured' = ensured + 1
                  => SameBut(brokerTopics, brokerTopics', topics[ensured + 1])
             /\ ensured' = ensured => brokerTopics' = brokerTopics]_vars

\* C27's case: main has called ensureKafkaTopic for every topic on a broker
\* that held one of them with two partitions: the three absent topics exist
\* and the existing one is as it was.
TopicsEnsuredOnce ==
  /\ mainPc = "waitForGrafana"
  /\ brokerTopics =
       [t \in {topics[i] : i \in TopicIds} |->
          IF t = "temperature" THEN 2 ELSE 1]

(***************************************************************************)
(* Day counts.  One input line whose day field is the numeral of a number  *)
(* of DayCounts or is no numeral, taken through the stages up to the fetch *)
(* pool by one worker per pool.                                            *)
(***************************************************************************)
DayCounts == {0 - 1, 0, 1, 5, 6, 12}

RECURSIVE NatDigits(_)
NatDigits(n) ==
  IF n < 10 THEN <<Digits[n + 1]>>
  ELSE NatDigits(n \div 10) \o <<Digits[(n % 10) + 1]>>

\* The line "n|A".
DayLine(n) ==
  (IF n < 0 THEN <<"-">> \o NatDigits(0 - n) ELSE NatDigits(n)) \o <<"|", "A">>

\* The lines "x|A", "|A" and "1.5|A".
NonNumericLines ==
  { <<"x", "|", "A">>, <<"|", "A">>, <<"1", ".", "5", "|", "A">> }

DayInit ==
  /\ numWorkers = 1
  /\ fileText \in { <<DayLine(n)>> : n \in DayCounts }
                   \cup { <<l>> : l \in NonNumericLines }
  /\ provider \in PipelineProviders /\ provider.missing = 0
  /\ metricsFile = EmptyFile
  /\ topic = [t \in TopicIds |-> <<>>]
  /\ InitWorkers

DaySpec == DayInit /\ [][StageNext]_vars

\* The requests of line i that are in the pipeline: the one parseLine
\* returned and the ones the workers hold.
RequestsOf(i) ==
  { r \in {line[i].req}
            \cup {zipWorkers[w].req : w \in Workers}
            \cup {zipWorkers[w].post : w \in Workers}
            \cup {resultWorkers[v].req : v \in Workers} : r.LineNum = i }

Min(a, b) == IF a < b THEN a ELSE b

\* C28: every request in the pipeline has a day count from 1 to MaxDays; a
\* line whose day count is zero, negative or no number is never sent on
\* preCoordinateChan and leaves no request; a line with the day count n >= 1
\* yields requests with the day count n, or MaxDays when n is above it.
DayCountsInRange ==
  \A i \in LineIds :
     /\ \A r \in RequestsOf(i) : 1 <= r.Days /\ r.Days <= MaxDays
     /\ \A n \in DayCounts :
           fileText[i] = DayLine(n) =>
              IF n <= 0
              THEN sent["preCoordinateChan"][i] = 0 /\ RequestsOf(i) = {}
              ELSE \A r \in RequestsOf(i) : r.Days = Min(n, MaxDays)
     /\ fileText[i] \in NonNumericLines =>
           sent["preCoordinateChan"][i] = 0 /\ RequestsOf(i) = {}

\* C28's case: the line "12|A" has reached the fetch pool as a request for
\* MaxDays days, and the worker publishes the events of the last day.
TwelveDaysFetchedAsFive ==
  /\ fileText = <<DayLine(12)>>
  /\ \E v \in Workers :
        /\ resultWorkers[v].pc = "publish"
        /\ resultWorkers[v].req.Days = MaxDays
        /\ resultWorkers[v].i = MaxDays - 1


(***************************************************************************)
(* The news fetcher (Project 1).  Strings are sequences of characters;     *)
(* the clock stands at 2026-11-01.                                         *)
(***************************************************************************)
CharCode(c) == IF c = "-" THEN 45 ELSE 48 + DigitVal(c)

\* a < b for strings, as Go and SQLite compare them: byte by byte.
RECURSIVE StrLess(_, _)
StrLess(a, b) ==
  IF b = <<>> THEN FALSE
  ELSE IF a = <<>> THEN TRUE
  ELSE IF Head(a) = Head(b) THEN StrLess(Tail(a), Tail(b))
  ELSE CharCode(Head(a)) < CharCode(Head(b))

Pad2(n) == IF n < 10 THEN <<"0">> \o NatDigits(n) ELSE NatDigits(n)

\* time.Now().AddDate(0, 0, -back).Format("2006-01-02")
FormatPast(back) ==
  IF back = 0 THEN <<"2", "0", "2", "6", "-", "1", "1", "-", "0", "1">>
  ELSE <<"2", "0", "2", "6", "-", "1", "0", "-">> \o Pad2(32 - back)

\* time.Parse("2006-01-02", s), as the number of days from the clock's day.
ParseDate(s) == 0 - (CHOOSE back \in 0..31 : FormatPast(back) = s)

NoSearchRequest == [Query |-> <<>>, Days |-> <<>>, Limit |-> <<>>]

\* parseLine of the news fetcher.
parseSearchLine(text, lineNum) ==
  LET parameters == Split(text, "|")
  IN  IF Len(parameters) # 3
      THEN [req |-> NoSearchRequest, success |-> FALSE]
      ELSE LET query    == TrimSpace(parameters[1])
               daysStr  == TrimSpace(parameters[2])
               limit    == TrimSpace(parameters[3])
               days     == Atoi(daysStr)
               limitVal == Atoi(limit)
           IN  IF days.err \/ days.val <= 0
               THEN [req |-> NoSearchRequest, success |-> FALSE]
               ELSE IF limitVal.err \/ limitVal.val <= 0
               THEN [req |-> NoSearchRequest, success |-> FALSE]
               ELSE [req |-> [Query |-> query,
                              Days  |-> FormatPast(days.val - 1),
                              Limit |-> limit],
                     success |-> TRUE]

\* What the news API answers to the URL built from request: one article a
\* day from the clock's day back to the from date, each given by the date
\* of its publishedAt.
NewsAPIResponse(request) ==
  [Status   |-> "ok",
   Articles |-> [k \in 1..(1 - ParseDate(request.Days)) |->
                   FormatPast(k - 1)]]

\* The entries printResponse prints: the articles not older than req.Days,
\* up to req.Limit of them.
Printed(req, resp) ==
  Min(Atoi(req.Limit).val,
      Cardinality({k \in 1..Len(resp.Articles) :
                     ~(ParseDate(resp.Articles[k]) < ParseDate(req.Days))}))

\* printResponse(req, resp, location); days and limit are those of the
\* request whose response resp is.
PrintResponse(i, req, resp, location, days, limit) ==
  Put(served, i,
      [location |-> location, days |-> days, limit |-> limit,
       printed |-> Printed(req, resp)])

(***************************************************************************)
(* News fetcher: the goroutines.                                           *)
(***************************************************************************)
\* The goroutine of line i: parseLine.
SearchLineParse(i) ==
  /\ Running /\ line[i].pc = "run"
  /\ LET r == parseSearchLine(fileText[i], i)
     IN  line' = [line EXCEPT ![i] =
                    [pc |-> IF r.success THEN "send" ELSE "done",
                     req |-> r.req]]
  /\ UNCHANGED <<numWorkers, exited, panicked, fileText, provider, mainPc,
                 lineNumber, closed, cancelled, zipWorkers, resultWorkers,
                 topic, kafkaConsumers, promWorkers, gauges, mutex,
                 metricsFile, startFile, calls, checks, sent, writes,
                 applied, lastDone, reachable, elapsed, ensured,
                 brokerTopics, db, rowLimit, cache, queryMutexes, locked,
                 searchWorkers, writeWorkers, served, apiCalls>>

\* requestsChan <- req, received by worker w.
SearchLineSend(i, w) ==
  /\ Running /\ line[i].pc = "send"
  /\ searchWorkers[w].pc = "recv"
  /\ line' = [line EXCEPT ![i].pc = "done"]
  /\ searchWorkers' =
       [searchWorkers EXCEPT ![w].pc = "load", ![w].req = line[i].req,
                             ![w].line = i]
  /\ UNCHANGED <<numWorkers, exited, panicked, fileText, provider, mainPc,
                 lineNumber, closed, cancelled, zipWorkers, resultWorkers,
                 topic, kafkaConsumers, promWorkers, gauges, mutex,
                 metricsFile, startFile, calls, checks, sent, writes,
                 applied, lastDone, reachable, elapsed, ensured,
                 brokerTopics, db, rowLimit, cache, queryMutexes, locked,
                 writeWorkers, served, apiCalls>>

\* range requestsChan ends.
SearchRecvClosed(w) ==
  /\ Running /\ searchWorkers[w].pc = "recv"
  /\ closed["requestsChan"]
  /\ searchWorkers' = [searchWorkers EXCEPT ![w].pc = "done"]
  /\ UNCHANGED <<numWorkers, exited, panicked, fileText, provider, mainPc,
                 lineNumber, line, closed, cancelled, zipWorkers,
                 resultWorkers, topic, kafkaConsumers, promWorkers, gauges,
                 mutex, metricsFile, startFile, calls, checks, sent, writes,
                 applied, lastDone, reachable, elapsed, ensured,
                 brokerTopics, db, rowLimit, cache, queryMutexes, locked,
                 writeWorkers, served, apiCalls>>

\* The rows SELECT data FROM articles WHERE query = ? AND days <= ? finds.
Selected(req) ==
  { k \in DOMAIN db : k[1] = req.Query /\ ~StrLess(req.Days, k[2]) }

\* loadFromDatabase(req): QueryRow takes a row of the selected ones; with a
\* row the worker prints it and takes the next request.
LoadFromDatabase(w) ==
  /\ Running /\ searchWorkers[w].pc = "load"
  /\ LET me   == searchWorkers[w]
         rows == Selected(me.req)
     IN  IF rows = {}
         THEN /\ searchWorkers' = [searchWorkers EXCEPT ![w].pc = "getMutex"]
              /\ served' = served
         ELSE \E k \in rows :
                 /\ served' = PrintResponse(me.line, me.req, db[k],
                                            "DATABASE", k[2], rowLimit[k])
                 /\ searchWorkers' = [searchWorkers EXCEPT ![w].pc = "recv"]
  /\ UNCHANGED <<numWorkers, exited, panicked, fileText, provider, mainPc,
                 lineNumber, line, closed, cancelled, zipWorkers,
                 resultWorkers, topic, kafkaConsumers, promWorkers, gauges,
                 mutex, metricsFile, startFile, calls, checks, sent, writes,
                 applied, lastDone, reachable, elapsed, ensured,
                 brokerTopics, db, rowLimit, cache, queryMutexes, locked,
                 writeWorkers, apiCalls>>

\* getQueryMutex(req): a new mutex for a query that has none and for a
\* request that goes further back than the one the mutex was made for.
GetQueryMutex(w) ==
  /\ Running /\ searchWorkers[w].pc = "getMutex"
  /\ LET me     == searchWorkers[w]
         exists == me.req.Query \in DOMAIN queryMutexes
         fresh  == ~exists
                   \/ StrLess(me.req.Days,
                              queryMutexes[me.req.Query].Request.Days)
     IN  /\ queryMutexes' =
              IF fresh
              THEN Put(queryMutexes, me.req.Query,
                       [Request |-> me.req, Mutex |-> me.line])
              ELSE queryMutexes
         /\ searchWorkers' =
              [searchWorkers EXCEPT
                 ![w].pc = "lock",
                 ![w].mu = IF fresh THEN me.line
                           ELSE queryMutexes[me.req.Query].Mutex]
  /\ UNCHANGED <<numWorkers, exited, panicked, fileText, provider, mainPc,
                 lineNumber, line, closed, cancelled, zipWorkers,
                 resultWorkers, topic, kafkaConsumers, promWorkers, gauges,
                 mutex, metricsFile, startFile, calls, checks, sent, writes,
                 applied, lastDone, reachable, elapsed, ensured,
                 brokerTopics, db, rowLimit, cache, locked, writeWorkers,
                 served, apiCalls>>

\* mu.Lock()
MutexLock(w) ==
  /\ Running /\ searchWorkers[w].pc = "lock"
  /\ searchWorkers[w].mu \notin locked
  /\ locked' = locked \cup {searchWorkers[w].mu}
  /\ searchWorkers' = [searchWorkers EXCEPT ![w].pc = "cache"]
  /\ UNCHANGED <<numWorkers, exited, panicked, fileText, provider, mainPc,
                 lineNumber, line, closed, cancelled, zipWorkers,
                 resultWorkers, topic, kafkaConsumers, promWorkers, gauges,
                 mutex, metricsFile, startFile, calls, checks, sent, writes,
                 applied, lastDone, reachable, elapsed, ensured,
                 brokerTopics, db, rowLimit, cache, queryMutexes,
                 writeWorkers, served, apiCalls>>

\* The cached result serves the request: it goes back as far as asked.
CacheServes(req) ==
  /\ req.Query \in DOMAIN cache
  /\ ~(ParseDate(cache[req.Query].req.Days) > ParseDate(req.Days))

\* A faulty ProcessRequestCache: any cached result of the query is used.
ProcessRequestCacheAnyDate(w) ==
  /\ Running /\ searchWorkers[w].pc = "cache"
  /\ LET me == searchWorkers[w]
     IN  IF me.req.Query \in DOMAIN cache
         THEN LET mem == cache[me.req.Query]
              IN  /\ served' = PrintResponse(me.line, me.req, mem.resp,
                                             "CACHE", mem.req.Days,
                                             mem.req.Limit)
                  /\ locked' = locked \ {me.mu}
                  /\ searchWorkers' = [searchWorkers EXCEPT ![w].pc = "recv"]
         ELSE /\ searchWorkers' = [searchWorkers EXCEPT ![w].pc = "api"]
              /\ served' = served /\ locked' = locked
  /\ UNCHANGED <<numWorkers, exited, panicked, fileText, provider, mainPc,
                 lineNumber, line, closed, cancelled, zipWorkers,
                 resultWorkers, topic, kafkaConsumers, promWorkers, gauges,
                 mutex, metricsFile, startFile, calls, checks, sent, writes,
                 applied, lastDone, reachable, elapsed, ensured,
                 brokerTopics, db, rowLimit, cache, queryMutexes,
                 writeWorkers, apiCalls>>

\* processRequest up to the API call: with a cached result that serves the
\* request it prints that, returns, and the worker unlocks the mutex.
ProcessRequestCache(w) ==
  /\ Running /\ searchWorkers[w].pc = "cache"
  /\ LET me == searchWorkers[w]
     IN  IF CacheServes(me.req)
         THEN LET mem == cache[me.req.Query]
              IN  /\ served' = PrintResponse(me.line, me.req, mem.resp,
                                             "CACHE", mem.req.Days,
                                             mem.req.Limit)
                  /\ locked' = locked \ {me.mu}
                  /\ searchWorkers' = [searchWorkers EXCEPT ![w].pc = "recv"]
         ELSE /\ searchWorkers' = [searchWorkers EXCEPT ![w].pc = "api"]
              /\ served' = served /\ locked' = locked
  /\ UNCHANGED <<numWorkers, exited, panicked, fileText, provider, mainPc,
                 lineNumber, line, closed, cancelled, zipWorkers,
                 resultWorkers, topic, kafkaConsumers, promWorkers, gauges,
                 mutex, metricsFile, startFile, calls, checks, sent, writes,
                 applied, lastDone, reachable, elapsed, ensured,
                 brokerTopics, db, rowLimit, cache, queryMutexes,
                 writeWorkers, apiCalls>>

\* processRequest: http.Get and Decode succeed, the status is not "error".
ProcessRequestAPI(w) ==
  /\ Running /\ searchWorkers[w].pc = "api"
  /\ apiCalls' = Put(apiCalls, searchWorkers[w].line,
                     At(apiCalls, searchWorkers[w].line, 0) + 1)
  /\ searchWorkers' =
       [searchWorkers EXCEPT
          ![w].pc = "write",
          ![w].resp = NewsAPIResponse(searchWorkers[w].req)]
  /\ UNCHANGED <<numWorkers, exited, panicked, fileText, provider, mainPc,
                 lineNumber, line, closed, cancelled, zipWorkers,
                 resultWorkers, topic, kafkaConsumers, promWorkers, gauges,
                 mutex, metricsFile, startFile, calls, checks, sent, writes,
                 applied, lastDone, reachable, elapsed, ensured,
                 brokerTopics, db, rowLimit, cache, queryMutexes, locked,
                 writeWorkers, served>>

\* processRequest: the call fails or the API answers with an error: panic.
ProcessRequestPanic(w) ==
  /\ Running /\ searchWorkers[w].pc = "api"
  /\ apiCalls' = Put(apiCalls, searchWorkers[w].line,
                     At(apiCalls, searchWorkers[w].line, 0) + 1)
  /\ panicked' = "news API"
  /\ UNCHANGED <<numWorkers, exited, fileText, provider, mainPc, lineNumber,
                 line, closed, cancelled, zipWorkers, resultWorkers, topic,
                 kafkaConsumers, promWorkers, gauges, mutex, metricsFile,
                 startFile, calls, checks, sent, writes, applied, lastDone,
                 reachable, elapsed, ensured, brokerTopics, db, rowLimit,
                 cache, queryMutexes, locked, searchWorkers, writeWorkers,
                 served>>

\* writeChan <- reqNresp{...}, received by writer u.
WriteSend(w, u) ==
  /\ Running /\ searchWorkers[w].pc = "write"
  /\ writeWorkers[u].pc = "recv"
  /\ writeWorkers' =
       [writeWorkers EXCEPT
          ![u].pc = "save",
          ![u].w = [req |-> searchWorkers[w].req,
                    resp |-> searchWorkers[w].resp]]
  /\ searchWorkers' = [searchWorkers EXCEPT ![w].pc = "store"]
  /\ UNCHANGED <<numWorkers, exited, panicked, fileText, provider, mainPc,
                 lineNumber, line, closed, cancelled, zipWorkers,
                 resultWorkers, topic, kafkaConsumers, promWorkers, gauges,
                 mutex, metricsFile, startFile, calls, checks, sent, writes,
                 applied, lastDone, reachable, elapsed, ensured,
                 brokerTopics, db, rowLimit, cache, queryMutexes, locked,
                 served, apiCalls>>

\* processRequest after the send: the result replaces the cached one, is
\* printed, and the worker unlocks the mutex.
ProcessRequestStore(w) ==
  /\ Running /\ searchWorkers[w].pc = "store"
  /\ LET me == searchWorkers[w]
     IN  /\ cache' = Put(cache, me.req.Query, [req |-> me.req, resp |-> me.resp])
         /\ served' = PrintResponse(me.line, me.req, me.resp, "API",
                                    me.req.Days, me.req.Limit)
         /\ locked' = locked \ {me.mu}
         /\ searchWorkers' = [searchWorkers EXCEPT ![w].pc = "recv"]
  /\ UNCHANGED <<numWorkers, exited, panicked, fileText, provider, mainPc,
                 lineNumber, line, closed, cancelled, zipWorkers,
                 resultWorkers, topic, kafkaConsumers, promWorkers, gauges,
                 mutex, metricsFile, startFile, calls, checks, sent, writes,
                 applied, lastDone, reachable, elapsed, ensured,
                 brokerTopics, db, rowLimit, queryMutexes, writeWorkers,
                 apiCalls>>

\* saveToDatabase(w.req, w.resp): INSERT OR REPLACE on the key (query, days).
SaveToDatabase(u) ==
  /\ Running /\ writeWorkers[u].pc = "save"
  /\ LET w == writeWorkers[u].w
         k == <<w.req.Query, w.req.Days>>
     IN  /\ db' = Put(db, k, w.resp)
         /\ rowLimit' = Put(rowLimit, k, w.req.Limit)
  /\ writeWorkers' = [writeWorkers EXCEPT ![u].pc = "recv"]
  /\ UNCHANGED <<numWorkers, exited, panicked, fileText, provider, mainPc,
                 lineNumber, line, closed, cancelled, zipWorkers,
                 resultWorkers, topic, kafkaConsumers, promWorkers, gauges,
                 mutex, metricsFile, startFile, calls, checks, sent, writes,
                 applied, lastDone, reachable, elapsed, ensured,
                 brokerTopics, cache, queryMutexes, locked, searchWorkers,
                 served, apiCalls>>

\* range writeChan ends.
WriteRecvClosed(u) ==
  /\ Running /\ writeWorkers[u].pc = "recv"
  /\ closed["writeChan"]
  /\ writeWorkers' = [writeWorkers EXCEPT ![u].pc = "done"]
  /\ UNCHANGED <<numWorkers, exited, panicked, fileText, provider, mainPc,
                 lineNumber, line, closed, cancelled, zipWorkers,
                 resultWorkers, topic, kafkaConsumers, promWorkers, gauges,
                 mutex, metricsFile, startFile, calls, checks, sent, writes,
                 applied, lastDone, reachable, elapsed, ensured,
                 brokerTopics, db, rowLimit, cache, queryMutexes, locked,
                 searchWorkers, served, apiCalls>>

NewsFileWait == Wait("fileWait", line, "closeRequests")

NewsResultsWait == Wait("resultsWait", searchWorkers, "closeWrite")

NewsCloseWrite == Close("closeWrite", "writeChan", "writeWait")

NewsWriteWait == Wait("writeWait", writeWorkers, "stopped")

(***************************************************************************)
(* News fetcher: the runs.  Two lines of the queries q and r over one or   *)
(* two days with a limit of one or two entries, one or two workers per     *)
(* pool, and a database that is empty or holds a row of an earlier run.    *)
(***************************************************************************)
NewsLines ==
  { <<c, "|", d, "|", l>> : c \in {"q"}, d \in {"1", "2"}, l \in {"1", "2"} }
    \cup { <<"r", "|", "1", "|", "1">>, <<"q", "|", "0", "|", "1">> }

\* The row the request "q|days|1" of an earlier run left.
EarlierRow(back) ==
  [k \in {<<<<"q">>, FormatPast(back)>>} |->
     NewsAPIResponse([Query |-> <<"q">>, Days |-> FormatPast(back),
                      Limit |-> <<"1">>])]

NewsRun(pools, files, rows) ==
  /\ numWorkers \in pools
  /\ fileText \in files
  /\ db \in rows
  /\ rowLimit = [k \in DOMAIN db |-> <<"1">>]
  /\ cache = <<>>
  /\ queryMutexes = <<>>
  /\ locked = {}
  /\ searchWorkers =
       [w \in Workers |->
          [pc |-> "recv", req |-> NoSearchRequest, line |-> 0, mu |-> 0,
           resp |-> [Status |-> "", Articles |-> <<>>]]]
  /\ writeWorkers =
       [w \in Workers |->
          [pc |-> "recv",
           w |-> [req |-> NoSearchRequest,
                  resp |-> [Status |-> "", Articles |-> <<>>]]]]
  /\ served = <<>>
  /\ apiCalls = <<>>
  /\ exited = FALSE
  /\ panicked = ""
  /\ mainPc = "scan"
  /\ lineNumber = 0
  /\ line = [i \in LineIds |-> [pc |-> "none", req |-> NoSearchRequest]]
  /\ closed = [ch \in {"requestsChan", "writeChan"} |-> FALSE]
  /\ StartupDone
  /\ provider \in PipelineProviders /\ provider.missing = 0
  /\ metricsFile = EmptyFile
  /\ startFile = EmptyFile
  /\ topic = <<>>
  /\ cancelled = FALSE
  /\ zipWorkers = <<>>
  /\ resultWorkers = <<>>
  /\ kafkaConsumers = <<>>
  /\ promWorkers = <<>>
  /\ gauges = <<>>
  /\ mutex = 0
  /\ calls = <<>>
  /\ checks = <<>>
  /\ sent = <<>>
  /\ writes = <<>>
  /\ applied = {}
  /\ lastDone = <<>>

NewsInit ==
  NewsRun(1..2, { <<a, b>> : a \in NewsLines, b \in NewsLines },
          { <<>>, EarlierRow(0), EarlierRow(1) })

NewsNext ==
  \/ MainScan
  \/ MainScanEnd
  \/ NewsFileWait
  \/ MainCloseRequests
  \/ NewsResultsWait
  \/ NewsCloseWrite
  \/ NewsWriteWait
  \/ \E i \in LineIds : SearchLineParse(i)
  \/ \E i \in LineIds, w \in Workers : SearchLineSend(i, w)
  \/ \E w \in Workers : SearchRecvClosed(w)
  \/ \E w \in Workers : LoadFromDatabase(w)
  \/ \E w \in Workers : GetQueryMutex(w)
  \/ \E w \in Workers : MutexLock(w)
  \/ \E w \in Workers : ProcessRequestCache(w)
  \/ \E w \in Workers : ProcessRequestAPI(w)
  \/ \E w \in Workers : ProcessRequestPanic(w)
  \/ \E w \in Workers, u \in Workers : WriteSend(w, u)
  \/ \E w \in Workers : ProcessRequestStore(w)
  \/ \E u \in Workers : SaveToDatabase(u)
  \/ \E u \in Workers : WriteRecvClosed(u)

NewsSpec == NewsInit /\ [][NewsNext]_vars

(***************************************************************************)
(* News fetcher: database, cache and API.                                  *)
(***************************************************************************)
\* The database holds a row for the query of req whose start date is on or
\* before the start date of req.
HasRow(req) ==
  \E k \in DOMAIN db :
     k[1] = req.Query /\ ParseDate(k[2]) <= ParseDate(req.Days)

\* Worker w finishes loadFromDatabase in this step.
Loads(w) == searchWorkers[w].pc = "load" /\ searchWorkers'[w].pc # "load"

\* With such a row the request is answered from a row of its query that
\* goes back far enough, and no API call is made for it; without one it is
\* not answered from the database and goes on to the mutex and the cache.
LoadAnswers(w) ==
  LET me == searchWorkers[w]
  IN  IF HasRow(me.req)
      THEN /\ me.line \in DOMAIN served'
           /\ served'[me.line].location = "DATABASE"
           /\ ParseDate(served'[me.line].days) <= ParseDate(me.req.Days)
           /\ searchWorkers'[w].pc = "recv"
           /\ me.line \notin DOMAIN apiCalls'
      ELSE /\ me.line \notin DOMAIN served'
           /\ searchWorkers'[w].pc = "getMutex"

\* The result of line i is in the database once the run has stopped.
StoredAtStop(i, days) ==
  mainPc = "stopped" => <<line[i].req.Query, days>> \in DOMAIN db

\* Line i was answered by an API call, made once, whose result is stored.
AnsweredByAPI(i) ==
  /\ served[i].location = "API"
  /\ At(apiCalls, i, 0) = 1
  /\ StoredAtStop(i, line[i].req.Days)

\* Line i was answered from the cache, without an API call, by a result
\* that goes back far enough and is stored.
AnsweredByCache(i) ==
  /\ served[i].location = "CACHE"
  /\ At(apiCalls, i, 0) = 0
  /\ ParseDate(served[i].days) <= ParseDate(line[i].req.Days)
  /\ StoredAtStop(i, served[i].days)

\* Every valid line has its answer when the run has stopped.
AllAnswered ==
  mainPc = "stopped" =>
     \A i \in LineIds :
        parseSearchLine(fileText[i], i).success => i \in DOMAIN served

\* C29 as stated: a request is answered from the database, with no API
\* call, when the database holds a row of its query with a start date on or
\* before its own; every other request is answered by an API call whose
\* result is stored.
DatabaseElseAPI ==
  /\ [][\A w \in Workers : Loads(w) => LoadAnswers(w)]_vars
  /\ [](AllAnswered
        /\ \A i \in DOMAIN served :
              served[i].location # "DATABASE" => AnsweredByAPI(i))

\* C29, amended: as stated, but a request that finds no such row is
\* answered without an API call from the cache of the run when the cached
\* result of its query goes back as far as the request asks; that result
\* came from an API call of the run and is stored.
DatabaseElseCacheElseAPI ==
  /\ [][\A w \in Workers : Loads(w) => LoadAnswers(w)]_vars
  /\ [](AllAnswered
        /\ \A i \in DOMAIN served :
              served[i].location # "DATABASE"
                 => AnsweredByAPI(i) \/ AnsweredByCache(i))

\* C29's case: the run has stopped; one request was answered from the row
\* an earlier run left, and a request of the same query over a longer
\* period was answered by the API and its result is stored.
LongerPeriodFetched ==
  /\ mainPc = "stopped"
  /\ \E i \in DOMAIN served, j \in DOMAIN served :
        /\ served[i].location = "DATABASE"
        /\ served[j].location = "API"
        /\ line[i].req.Query = line[j].req.Query
        /\ ParseDate(line[j].req.Days) < ParseDate(line[i].req.Days)
        /\ <<line[j].req.Query, line[j].req.Days>> \in DOMAIN db

\* C30: a request with the query and the period of a stored or cached
\* result and a larger limit than the request that produced the result is
\* not answered from the database or the cache.
LargerLimitCallsAPI ==
  \A i \in DOMAIN served :
     (/\ served[i].location \in {"DATABASE", "CACHE"}
      /\ served[i].days = line[i].req.Days)
       => ~(Atoi(served[i].limit).val < Atoi(line[i].req.Limit).val)

(***************************************************************************)
(* The message key.  processRequest publishes every event under the key    *)
(* zipCode + "-" + date and consumeKafkaTopic takes the location and the    *)
(* date of the event from strings.SplitN(key, "-", 2).  parseLine takes the *)
(* part of the line after the bar as the ZIP code without looking at it,    *)
(* so the runs below end over a five-digit code "A" and over a ZIP+4 code   *)
(* "A-B".                                                                   *)
(***************************************************************************)
KeyInit ==
  RunEnd({ << <<"1", "|", "A">> >>, << <<"1", "|", "A", "-", "B">> >> })

KeySpec == KeyInit /\ [][TailNext]_vars

\* The event a consumer holds: the last one it read from its topic.
Held(c) == topic[c[2]][kafkaConsumers[c].off]

\* C31: the location and the date under which a consumer hands an event to
\* the aggregation workers are the ZIP code of the request and the date with
\* which processRequest published the event, for every ZIP code parseLine
\* accepts.
KeyRecoversZipAndDate ==
  \A c \in Consumers :
    kafkaConsumers[c].pc = "send" =>
      /\ kafkaConsumers[c].msg.Zip = line[1].req.ZIPCode
      /\ kafkaConsumers[c].msg.Date = Held(c).Value.Date
      /\ Held(c).Key = MessageKey(line[1].req.ZIPCode, Held(c).Value.Date)

(***************************************************************************)
(* From ReadMessage to updateMetrics.                                      *)
(***************************************************************************)
\* This step is the receive by worker a of the message consumer c holds:
\* the worker enters updateMetrics with it.
Taken(c, a) ==
  /\ kafkaConsumers[c].pc = "send"
  /\ kafkaConsumers'[c].pc = "read"
  /\ promWorkers[a].pc = "recv"
  /\ promWorkers'[a].pc \in {"gauge", "lock"}
  /\ promWorkers'[a].msg = kafkaConsumers[c].msg

\* Worker a has made every Set call of the switch for its message.
GaugesSet(a) == promWorkers[a].k = Len(GaugeOps(promWorkers[a].msg)) + 1

\* C32: a message a consumer has read stays with the consumer until one
\* aggregation worker receives it, the receive is before metricsChan is
\* closed, each call of updateMetrics is for one received message, and the
\* call returns, before main stops, after the Set calls of the message and
\* after OpenFile for the append.
ReadMessagesAreAggregatedOnce ==
  /\ [][\A c \in Consumers :
          kafkaConsumers[c].pc = "send" =>
            \/ kafkaConsumers'[c] = kafkaConsumers[c]
            \/ Cardinality({a \in Workers : Taken(c, a)}) = 1]_vars
  /\ [][\A a \in Workers :
          promWorkers[a].pc = "recv" /\ promWorkers'[a].pc \notin {"recv", "done"}
            => Cardinality({c \in Consumers : Taken(c, a)}) = 1]_vars
  /\ [][\A a \in Workers :
          InUpdate(a) /\ promWorkers'[a].pc \in {"recv", "done"}
            => /\ promWorkers[a].pc \in {"open", "newline"}
               /\ GaugesSet(a)]_vars
  /\ [](closed["metricsChan"] =>
          \A c \in Consumers : kafkaConsumers[c].pc = "done")
  /\ [](mainPc = "stopped" => \A a \in Workers : ~InUpdate(a))

\* C32's case: before cancel() one message has been through updateMetrics
\* and a consumer holds the next, which a worker is free to receive.
AggregatedBeforeCancel ==
  /\ ~cancelled /\ Running
  /\ applied # {}
  /\ \E c \in Consumers : kafkaConsumers[c].pc = "send"
  /\ \E a \in Workers : promWorkers[a].pc = "recv"

(***************************************************************************)
(* The errors of ReadMessage.                                              *)
(***************************************************************************)
\* C33: a consumer returns only from ReadMessage and only when the context
\* is cancelled; while the context is live a consumer leaves ReadMessage only
\* with the next message of its topic, or the process is terminated, after
\* which no goroutine takes a step.
OnlyCancellationEndsAConsumer ==
  /\ [][\A c \in Consumers :
          kafkaConsumers[c].pc # "done" /\ kafkaConsumers'[c].pc = "done"
            => kafkaConsumers[c].pc = "read" /\ cancelled]_vars
  /\ [][\A c \in Consumers :
          kafkaConsumers[c].pc = "read" /\ kafkaConsumers'[c].pc = "send"
            => /\ kafkaConsumers'[c].off = kafkaConsumers[c].off + 1
               /\ kafkaConsumers'[c].off <= Len(topic[c[2]])]_vars
  /\ [][exited => UNCHANGED vars]_vars

\* C33's case: the process was terminated before cancel() with the resolver
\* and the fetch workers returned, so by the failed read of a consumer, while
\* another consumer held a message for the aggregation workers.
ReadFailureEndedTheRun ==
  /\ exited /\ ~cancelled
  /\ AllDone(zipWorkers) /\ AllDone(resultWorkers)
  /\ \E c \in Consumers : kafkaConsumers[c].pc = "read"
  /\ \E c \in Consumers : kafkaConsumers[c].pc = "send"

(***************************************************************************)
(* The high and the low alert of one metric.  The topic of the drain holds *)
(* a reading above the high threshold and a reading below the low one for  *)
(* the same location and date.                                             *)
(***************************************************************************)
AlertInit == DrainOf({HotSample, ColdSample})

AlertSpec == AlertInit /\ [][DrainNext]_vars

\* The high and the low alert gauge of the metrics that have both.
AlertPairs ==
  { <<"alert_temperature_high", "alert_temperature_low">>,
    <<"alert_humidity_high", "alert_humidity_low">> }

\* C34: the thresholds being ordered (tempLow <= tempHigh, humidityLow <=
\* humidityHigh), in every state in which no updateMetrics call is in
\* progress the high and the low alert gauge of one metric are not both 1
\* for the same (zip, date).
AlertsExcludeWhenQuiet ==
  (/\ tempLowDefault <= tempHighDefault
   /\ humidityLowDefault <= humidityHighDefault
   /\ NoUpdateRunning) =>
    \A p \in AlertPairs : \A g \in DOMAIN gauges :
       (g[1] = p[1] /\ gauges[g] = 1 /\ <<p[2], g[2], g[3]>> \in DOMAIN gauges)
         => gauges[<<p[2], g[2], g[3]>>] # 1

(***************************************************************************)
(* updateMetrics as a function of its message.  Each aggregation worker    *)
(* is idle or enters updateMetrics with a message of a family of the       *)
(* program or of the topic "pressure", which the switch does not know, for *)
(* the location A or B; the store is empty or holds gauges for A from      *)
(* earlier events.                                                         *)
(***************************************************************************)
GaugeNames ==
  {"temperature", "feelslike", "humidity", "wind_speed", "wind_degree",
   "cloud_percent", "alert_temperature_high", "alert_temperature_low",
   "alert_humidity_high", "alert_humidity_low", "alert_wind_high"}

UpdateMessages ==
  { EventMessage(t, z, Today, HotSample) :
      t \in {topics[n] : n \in TopicIds} \cup {"pressure"},
      z \in {<<"A">>, <<"B">>} }

EarlierGauges ==
  { <<>>,
    [g \in GaugeNames \X {<<"A">>} \X {FormatDate(Today)} |-> 0] }

UpdateInit ==
  /\ StartupDone
  /\ NewsIdle
  /\ numWorkers = 2
  /\ fileText = <<>>
  /\ provider \in PipelineProviders /\ provider.missing = 0
  /\ metricsFile = EmptyFile
  /\ startFile = EmptyFile
  /\ topic = [u \in TopicIds |-> <<>>]
  /\ kafkaConsumers =
       [c \in Consumers |-> [pc |-> "done", off |-> 0, msg |-> ZeroMessage]]
  /\ exited = FALSE
  /\ panicked = ""
  /\ mainPc = "closeMetrics"
  /\ lineNumber = 0
  /\ line = <<>>
  /\ closed = [ch \in {"preCoordinateChan", "requestsChan", "metricsChan"}
                 |-> ch # "metricsChan"]
  /\ cancelled = TRUE
  /\ zipWorkers =
       [w \in Workers |->
          [pc |-> "done", req |-> NoPreRequest, post |-> NoPostRequest,
           cod |-> NilCod]]
  /\ resultWorkers =
       [w \in Workers |->
          [pc |-> "done", req |-> NoPostRequest, len |-> 0, i |-> 0, j |-> 1]]
  /\ promWorkers \in
       [Workers ->
          {IdlePromWorker} \cup
          { [pc  |-> IF GaugeOps(msg) = <<>> THEN "lock" ELSE "gauge",
             msg |-> msg, k |-> 1, src |-> <<0, 0>>, overlapped |-> FALSE]
              : msg \in UpdateMessages }]
  /\ gauges \in EarlierGauges
  /\ mutex = 0
  /\ calls = <<>>
  /\ checks = <<>>
  /\ sent = [ch \in {"preCoordinateChan", "requestsChan"} |-> <<>>]
  /\ writes = <<>>
  /\ applied = {}
  /\ lastDone = <<>>

UpdateNext ==
  \/ MainCloseMetrics
  \/ MainPromWait
  \/ \E a \in Workers : PromRecvClosed(a)
  \/ \E a \in Workers : UpdateGauge(a)
  \/ \E a \in Workers : UpdateLock(a)
  \/ \E a \in Workers : UpdateOpen(a)
  \/ \E a \in Workers : UpdateOpenFail(a)
  \/ \E a \in Workers : UpdateWrite(a)
  \/ \E a \in Workers : UpdateNewline(a)

UpdateSpec == UpdateInit /\ [][UpdateNext]_vars

\* The gauges of a metric family: its values and its alerts.
FamilyGauges(t) ==
  CASE t = "temperature" ->
         {"temperature", "feelslike", "alert_temperature_high",
          "alert_temperature_low"}
    [] t = "humidity" ->
         {"humidity", "alert_humidity_high", "alert_humidity_low"}
    [] t = "wind" -> {"wind_speed", "wind_degree", "alert_wind_high"}
    [] t = "cloud" -> {"cloud_percent"}
    [] OTHER -> {}

\* The gauges this step has created or given another value.
Touched ==
  {g \in DOMAIN gauges' : g \notin DOMAIN gauges \/ gauges'[g] # gauges[g]}

\* C35: every gauge is kept, and a gauge that a step creates or changes is a
\* gauge of the family of the message of a worker that is in updateMetrics
\* and takes the step, with the Zip and the Date of that message as labels;
\* no alert gauge is among the gauges of a cloud event, and a message with a
\* topic that is no family has no gauge.
UpdateChangesOwnGaugesOnly ==
  [][/\ DOMAIN gauges \subseteq DOMAIN gauges'
     /\ \A g \in Touched :
          \E a \in Workers :
             /\ InUpdate(a) /\ promWorkers'[a] # promWorkers[a]
             /\ g[1] \in FamilyGauges(promWorkers[a].msg.Topic)
             /\ g[2] = promWorkers[a].msg.Zip
             /\ g[3] = promWorkers[a].msg.Date]_vars

\* C35's case: with gauges of location A in the store, a call for a cloud
\* event of B and a call for a pressure event have returned.
CloudAndUnknownProcessed ==
  /\ mainPc = "stopped"
  /\ \E g \in DOMAIN gauges : g[2] = <<"A">>
  /\ <<"cloud_percent", <<"B">>, FormatDate(Today)>> \in DOMAIN gauges
  /\ \E key \in DOMAIN lastDone : key[1] = "pressure"

OutcomeFiles ==
  { EmptyFile,
    [lines |-> <<<<LogRecord("cloud", <<"A">>, Today, MildSample)>>>>,
     tail |-> <<>>] }

OutcomeInit ==
  /\ numWorkers \in 1..2
  /\ fileText \in SeqsUpTo(StageLines, MaxStageLines)
  /\ provider \in PipelineProviders
  /\ metricsFile \in OutcomeFiles
  /\ topic = [t \in TopicIds |-> <<>>]
  /\ InitWorkers

\* WriteMessages returns an error for the first message of a request, the
\* broker having taken no message yet.
WriteRefused(v) ==
  /\ WriteCalls(v) = 0
  /\ \A t \in TopicIds : topic[t] = <<>>
  /\ WriteMessages(v, FALSE)

OutcomeNext ==
  \/ StageNext
  \/ MainCancel
  \/ \E v \in Workers : WriteRefused(v)

OutcomeSpec == OutcomeInit /\ [][OutcomeNext]_vars /\ WF_vars(OutcomeNext)

ValidLines == {i \in 1..Len(fileText) : parseLine(fileText[i], i).success}

\* The gate reported the request of line i as present.
Skipped(i) == i \in DOMAIN checks /\ checks[i].exists

\* The geocoder was asked for line i and the request went no further.
NotFound(i) ==
  /\ ~Skipped(i)
  /\ calls[i].geo = 1
  /\ sent["requestsChan"][i] = 0

\* The lines for which WriteMessages was called with the event of family t
\* and the date of message m of the location of line i.
Attempts(i, t, m) ==
  {j \in ValidLines :
     /\ <<j, t, m.Value.Date>> \in DOMAIN writes
     /\ parseLine(fileText[j], j).req.ZIPCode =
          parseLine(fileText[i], i).req.ZIPCode}

Occurs(t, m) == Cardinality({n \in 1..Len(topic[t]) : topic[t][n] = m})

\* The forecast of line i was fetched and each of its events is on its
\* topic, once for every call that wrote it.
PublishedAll(i) ==
  /\ sent["requestsChan"][i] = 1
  /\ calls[i].forecast = 1
  /\ \A t \in TopicIds :
       LET ms == Published(parseLine(fileText[i], i).req, provider, t)
       IN  \A n \in 1..Len(ms) :
              /\ At(writes, <<i, t, ms[n].Value.Date>>, 0) = 1
              /\ Occurs(t, ms[n]) = Cardinality(Attempts(i, t, ms[n]))

Outcomes(i) ==
  {o \in {"skipped", "not found", "published"} :
     \/ o = "skipped" /\ Skipped(i)
     \/ o = "not found" /\ NotFound(i)
     \/ o = "published" /\ PublishedAll(i)}

\* C37: under fair scheduling the run reaches cancel() unless the process is
\* terminated; the request of every valid line has been received by a
\* resolver worker when preCoordinateChan is closed; and when the context is
\* cancelled every valid request has exactly one outcome: skipped by the
\* gate, dropped as not found, or all of its events published.
EveryRequestHasOneOutcome ==
  /\ [](closed["preCoordinateChan"] =>
          \A i \in ValidLines : sent["preCoordinateChan"][i] = 1)
  /\ [](cancelled => \A i \in ValidLines : Cardinality(Outcomes(i)) = 1)
  /\ <>(cancelled \/ exited \/ panicked # "")

(***************************************************************************)
(* News fetcher: requests for one query at the same time.  Three workers   *)
(* over three lines for the query q, nothing stored or cached: all three   *)
(* from today on, or two from today on and one from yesterday on.          *)
(***************************************************************************)
SameQueryFiles ==
  { << <<"q", "|", "1", "|", "1">>, <<"q", "|", "1", "|", "1">>,
       <<"q", "|", d, "|", "1">> >> : d \in {"1", "2"} }

SameQueryInit == NewsRun({3}, SameQueryFiles, {<<>>})

SameQuerySpec == SameQueryInit /\ [][NewsNext]_vars

\* The lines with the query and the start date of line i.
SameRequest(i) ==
  {j \in LineIds :
     /\ parseSearchLine(fileText[j], j).req.Query =
          parseSearchLine(fileText[i], i).req.Query
     /\ parseSearchLine(fileText[j], j).req.Days =
          parseSearchLine(fileText[i], i).req.Days}

\* C38: of the requests with one query and one start date at most one makes
\* an API call, whatever other start dates of the query are processed at the
\* same time, and when the run has stopped the others were served without a
\* call: from the cache, or from the row of the call when a database writer
\* had saved it before the request was looked up.
OneCallPerQueryAndDate ==
  \A i \in LineIds :
     /\ \A j \in SameRequest(i) \ {i} :
           At(apiCalls, i, 0) + At(apiCalls, j, 0) <= 1
     /\ mainPc = "stopped" =>
          (i \in DOMAIN served /\
           (At(apiCalls, i, 0) = 0 =>
              served[i].location \in {"CACHE", "DATABASE"}))

\* C39: a step that replaces the cache entry of a query puts a result with
\* the same or an earlier start date in its place, under every interleaving
\* of the workers: the start date cached for a query never moves to a later
\* date.
CachedDateNeverLater ==
  [][\A q \in DOMAIN cache :
       /\ q \in DOMAIN cache'
       /\ ParseDate(cache'[q].req.Days) <= ParseDate(cache[q].req.Days)]_vars
=============================================================================
